---------------------------- MODULE Spec2Model ----------------------------
(***************************************************************************)
(* Model of the synthetic sales-data generator scripts/build_db.py.        *)
(*                                                                         *)
(* Numbers.  Python floats are modelled in fixed point:                    *)
(*   - region base weights and random multipliers in hundredths,          *)
(*   - normalised weights in units of 1/WScale (1e-8),                     *)
(*   - sales volumes (millions of copies) in units of 1e-4 million, the    *)
(*     precision build_from_csv rounds them to,                            *)
(*   - gamma samples and the monthly curve in thousandths.                 *)
(* A float division is rounded to the nearest unit of its scale.           *)
(*                                                                         *)
(* Strings are sequences of one-character strings, so that strip(),        *)
(* upper(), lower() and the `in` substring test are computed.  An optional *)
(* string (None or a str) is a sequence of length 0 (None) or 1.           *)
(*                                                                         *)
(* Random draws are explicit arguments ("draws" records) of the operators  *)
(* that model the functions calling the random module.                     *)
(***************************************************************************)
EXTENDS Integers, Sequences, FiniteSets, TLC

VARIABLES
    call,            \* the pure-function call under study and its result
    csv_file,        \* the seed file data/vgsales_30.csv: absent, or its rows
    db_file,         \* the committed content of data/vgsales_30.db
    rng,             \* state of the shared random generator
    pc,              \* position of the batch: "start" | "opened" | "rows" |
                     \* "done" | "failed" ("idle": no batch is run)
    rows,            \* the seed rows read from the CSV
    row_i,           \* index of the next seed row of the for loop
    platform_ids,    \* dict name -> id
    genre_ids,
    publisher_ids,
    game_ids,        \* dict (name, year, publisher) -> id
    PLATFORM,        \* tables of the store (uncommitted transaction included)
    GENRE,
    PUBLISHER,
    GAME,
    SALE,
    SaleMonthly,
    REGION,
    last,            \* what the last loop iteration computed (observer)
    dash             \* the properties of the dashboard's components

vars == <<call, csv_file, db_file, rng, pc, rows, row_i, platform_ids, genre_ids, publisher_ids,
          game_ids, PLATFORM, GENRE, PUBLISHER, GAME, SALE, SaleMonthly,
          REGION, last, dash>>

batchVars == <<csv_file, db_file, rng, pc, rows, row_i, platform_ids, genre_ids, publisher_ids,
               game_ids, PLATFORM, GENRE, PUBLISHER, GAME, SALE, SaleMonthly,
               REGION, last>>

-----------------------------------------------------------------------------
(* Bounds of the model *)

\* number of values a random.uniform draw is sampled at (both ends included)
DrawLevels == 2
\* length of the cyclic tape the continuous draws of one call are read from
TapeLen == 3
\* longest month window given to generate_monthly_pattern on its own
MaxMonths == 3
\* number of seed rows of a catalog
MaxRows == 2
\* number of states the shared random generator can start a batch in
NumStreams == 8
\* random.uniform(0.9, 1.1) of price_for_game takes the JitterSteps + 1 values
\* 0.9 + 0.2 * k / JitterSteps
JitterSteps == 35

-----------------------------------------------------------------------------
(* Strings *)

Uppers == <<"A","B","C","D","E","F","G","H","I","J","K","L","M",
            "N","O","P","Q","R","S","T","U","V","W","X","Y","Z">>
Lowers == <<"a","b","c","d","e","f","g","h","i","j","k","l","m",
            "n","o","p","q","r","s","t","u","v","w","x","y","z">>

UpperChar(c) ==
    IF \E i \in 1..26 : Lowers[i] = c
    THEN Uppers[CHOOSE i \in 1..26 : Lowers[i] = c] ELSE c

LowerChar(c) ==
    IF \E i \in 1..26 : Uppers[i] = c
    THEN Lowers[CHOOSE i \in 1..26 : Uppers[i] = c] ELSE c

\* str.upper() / str.lower()
upper(s) == [i \in 1..Len(s) |-> UpperChar(s[i])]
lower(s) == [i \in 1..Len(s) |-> LowerChar(s[i])]

RECURSIVE lstrip(_)
lstrip(s) == IF s # <<>> /\ Head(s) = " " THEN lstrip(Tail(s)) ELSE s

RECURSIVE rstrip(_)
rstrip(s) ==
    IF s # <<>> /\ s[Len(s)] = " " THEN rstrip(SubSeq(s, 1, Len(s) - 1)) ELSE s

\* str.strip()
strip(s) == rstrip(lstrip(s))

\* the Python test  sub in s  on strings
Contains(sub, s) ==
    \E i \in 0..(Len(s) - Len(sub)) : SubSeq(s, i + 1, i + Len(sub)) = sub

\* optional strings
None == <<>>
Str(s) == <<s>>
\* truthiness of an optional string: neither None nor ""
Truthy(o) == o # <<>> /\ o[1] # <<>>
\* (o or "")
OrEmpty(o) == IF Truthy(o) THEN o[1] ELSE <<>>

s_nintendo == <<"n","i","n","t","e","n","d","o">>
s_sony     == <<"s","o","n","y">>
s_square   == <<"s","q","u","a","r","e">>


-----------------------------------------------------------------------------
(* Fixed-point arithmetic *)

\* scale of a normalised weight: 1.0 is WScale
WScale == 10000 * 10000
\* 1e-6 in units of 1/WScale
Tolerance == WScale \div 1000000

RECURSIVE Pow(_, _)
Pow(b, n) == IF n = 0 THEN 1 ELSE b * Pow(b, n - 1)

RECURSIVE SumSeq(_)
SumSeq(s) == IF s = <<>> THEN 0 ELSE Head(s) + SumSeq(Tail(s))

Max(a, b) == IF a >= b THEN a ELSE b
Min(a, b) == IF a <= b THEN a ELSE b

\* n base-100 digits of r/d after the point: <<quotient, remainder>>, for 0 <= r <= d
RECURSIVE DivDigits(_, _, _)
DivDigits(r, d, n) ==
    IF n = 0 THEN <<0, r>>
    ELSE LET x    == r * 100
             rest == DivDigits(x % d, d, n - 1)
         IN  <<(x \div d) * Pow(100, n - 1) + rest[1], rest[2]>>

\* the float quotient v / total of 0 <= v <= total, total > 0, in units of
\* 1/WScale, rounded to the nearest unit
Normalised(v, total) ==
    LET qr == DivDigits(v, total, 4)
    IN  IF 2 * qr[2] >= total THEN qr[1] + 1 ELSE qr[1]

\* a * w / WScale as <<floor, remainder>> for 0 <= a < 1e8, 0 <= w <= WScale,
\* computed on 4-digit limbs
MulW(a, w) ==
    LET ah  == a \div 10000
        al  == a % 10000
        wh  == w \div 10000
        wl  == w % 10000
        low == al * wl
        mid == ah * wl + al * wh + (low \div 10000)
    IN  <<ah * wh + (mid \div 10000), (mid % 10000) * 10000 + (low % 10000)>>

\* the k-th continuous draw of a call, read from a cyclic tape of levels
TapeAt(tape, k) == tape[(k % Len(tape)) + 1]

\* random.uniform(lo, hi) at a level of 0..DrawLevels-1 (lo, hi in hundredths)
uniform(lo, hi, level) == lo + ((hi - lo) * level) \div (DrawLevels - 1)

Levels == 0..(DrawLevels - 1)
\* the tapes a call may read: arithmetic progressions of levels
Tapes == {[j \in 1..TapeLen |-> (a + b * j) % DrawLevels] : a \in Levels, b \in Levels}

-----------------------------------------------------------------------------
(* Module constants of build_db.py *)

regions == <<"Hokkaido", "Tohoku", "Kanto", "Chubu", "Kansai",
             "Chugoku", "Shikoku", "Kyushu">>
Regions == {regions[i] : i \in 1..Len(regions)}
RegionIndex(r) == CHOOSE i \in 1..Len(regions) : regions[i] = r

\* in hundredths
REGION_WEIGHTS ==
    [r \in Regions |->
        CASE r = "Hokkaido" -> 4
          [] r = "Tohoku"   -> 6
          [] r = "Kanto"    -> 35
          [] r = "Chubu"    -> 17
          [] r = "Kansai"   -> 18
          [] r = "Chugoku"  -> 6
          [] r = "Shikoku"  -> 4
          [] r = "Kyushu"   -> 10]

NINTENDO_PLATFORMS ==
    { <<"N","E","S">>, <<"S","N","E","S">>, <<"N","6","4">>, <<"G","C">>,
      <<"G","A","M","E","C","U","B","E">>, <<"W","I","I">>,
      <<"W","I","I","U">>, <<"S","W","I","T","C","H">>,
      <<"3","D","S">>, <<"D","S">> }

_is_nintendo_platform(platform_name) ==
    IF ~Truthy(platform_name) THEN FALSE
    ELSE upper(platform_name[1]) \in NINTENDO_PLATFORMS

\* a variant of the test that looks at the platform only
is_nintendo_title_platform_only(platform_name, publisher_name) ==
    _is_nintendo_platform(platform_name)

\* the test of lines 213 and 289
is_nintendo_title(platform_name, publisher_name) ==
    \/ _is_nintendo_platform(platform_name)
    \/ (Truthy(publisher_name) /\ Contains(s_nintendo, lower(publisher_name[1])))

g_Racing      == <<"R","a","c","i","n","g">>
g_RolePlaying == <<"R","o","l","e","-","P","l","a","y","i","n","g">>
g_Sports      == <<"S","p","o","r","t","s">>
g_Shooter     == <<"S","h","o","o","t","e","r">>
g_Platform    == <<"P","l","a","t","f","o","r","m">>
g_Action      == <<"A","c","t","i","o","n">>
g_Fighting    == <<"F","i","g","h","t","i","n","g">>
g_Simulation  == <<"S","i","m","u","l","a","t","i","o","n">>
g_Misc        == <<"M","i","s","c">>

-----------------------------------------------------------------------------
(* region_weight_distribution *)

\* PUBLISHER_REGION_PREFS.items() (lines 83-87), multipliers in hundredths;
\* no line of the script reads the table
PUBLISHER_REGION_PREFS ==
    << <<s_nintendo, [Kansai |-> 115, Kanto |-> 110]>>,
       <<s_sony, [Kanto |-> 115]>>,
       <<s_square, [Kanto |-> 108]>> >>

\* number of copies of each region in the candidate list
biased_candidates(genre_name, publisher_name) ==
    LET publisher_key == lower(OrEmpty(publisher_name))
        genre_key     == strip(OrEmpty(genre_name))
        pub(r) ==
            (IF Contains(s_nintendo, publisher_key)
             THEN (IF r = "Kanto" THEN 40 ELSE IF r = "Kansai" THEN 35 ELSE 0)
             ELSE 0)
            + (IF Contains(s_sony, publisher_key) /\ r = "Kanto" THEN 30 ELSE 0)
        gen(r) ==
            CASE genre_key = g_Racing ->
                    (IF r = "Kanto" THEN 25 ELSE IF r = "Chubu" THEN 20 ELSE 0)
              [] genre_key = g_RolePlaying -> (IF r = "Kanto" THEN 30 ELSE 0)
              [] genre_key = g_Sports -> (IF r = "Kansai" THEN 35 ELSE 0)
              [] genre_key = g_Shooter ->
                    (IF r = "Kyushu" THEN 20 ELSE IF r = "Kanto" THEN 15 ELSE 0)
              [] genre_key = g_Platform ->
                    (IF r = "Kansai" THEN 25 ELSE IF r = "Chubu" THEN 15 ELSE 0)
              [] OTHER -> 0
    IN  [r \in Regions |-> Max(1, REGION_WEIGHTS[r]) + pub(r) + gen(r)]

\* a variant that draws the secondary region among all 8 regions
RegionDrawsFor_any_secondary(genre_name, publisher_name) ==
    LET cand == biased_candidates(genre_name, publisher_name)
    IN  UNION {
          UNION {
            { [main |-> m, secondary |-> s, weak |-> w, tape |-> t] :
                w \in {x \in SUBSET (Regions \ {m, s}) : Cardinality(x) \in {1, 2}},
                t \in Tapes }
            : s \in Regions \cup {"-"} }
          : m \in {r \in Regions : cand[r] > 0} }

\* the draws one call can make: the main region (any region of the candidate
\* list), the secondary region ("-" when random() >= 0.4), the 1 or 2
\* suppressed regions sampled among the others, the tape of the uniform draws
RegionDrawsFor(genre_name, publisher_name) ==
    LET cand == biased_candidates(genre_name, publisher_name)
    IN  UNION {
          UNION {
            { [main |-> m, secondary |-> s, weak |-> w, tape |-> t] :
                w \in {x \in SUBSET (Regions \ {m, s}) : Cardinality(x) \in {1, 2}},
                t \in Tapes }
            : s \in (Regions \ {m}) \cup {"-"} }
          : m \in {r \in Regions : cand[r] > 0} }

\* the first-stage multiplier of a region, in hundredths (lines 275-287)
first_stage(r, d) ==
    CASE r = d.main      -> uniform(200, 300, TapeAt(d.tape, 0))
      [] r = d.secondary -> uniform(130, 180, TapeAt(d.tape, 1))
      [] r \in d.weak    -> uniform(30, 70, TapeAt(d.tape, 1 + RegionIndex(r)))
      [] OTHER           -> uniform(80, 120, TapeAt(d.tape, 1 + RegionIndex(r)))

\* the first-party multiplier of a region, in hundredths (lines 289-295)
nintendo_stage(r, d) ==
    IF r \in {"Kanto", "Kansai"}
    THEN uniform(110, 130, TapeAt(d.tape, 9 + RegionIndex(r)))
    ELSE 90

\* the unnormalised weights (line 297)
region_final(platform_name, publisher_name, d) ==
    IF is_nintendo_title(platform_name, publisher_name)
    THEN [r \in Regions |->
            REGION_WEIGHTS[r] * first_stage(r, d) * nintendo_stage(r, d)]
    ELSE [r \in Regions |-> REGION_WEIGHTS[r] * first_stage(r, d)]

SumRegions(f) == SumSeq([i \in 1..Len(regions) |-> f[regions[i]]])

\* a variant that takes the total before the first-party stage of lines
\* 289-295 is applied
region_weight_distribution_early_total(platform_name, genre_name, publisher_name, d) ==
    LET final == region_final(platform_name, publisher_name, d)
        scale == IF is_nintendo_title(platform_name, publisher_name) THEN 100 ELSE 1
        total == SumRegions([r \in Regions |->
                                REGION_WEIGHTS[r] * first_stage(r, d) * scale])
    IN  IF total <= 0
        THEN [r \in Regions |-> REGION_WEIGHTS[r] * (WScale \div 100)]
        ELSE [r \in Regions |-> Normalised(final[r], total)]

\* the returned map region -> weight, in units of 1/WScale
region_weight_distribution(platform_name, genre_name, publisher_name, d) ==
    LET final == region_final(platform_name, publisher_name, d)
        total == SumRegions(final)
    IN  IF total <= 0
        THEN [r \in Regions |-> REGION_WEIGHTS[r] * (WScale \div 100)]
        ELSE [r \in Regions |-> Normalised(final[r], total)]


-----------------------------------------------------------------------------
(* Month labels *)

Digits == <<"0","1","2","3","4","5","6","7","8","9">>
DigitChar(n) == Digits[n + 1]
DigitValue(c) == (CHOOSE i \in 1..10 : Digits[i] = c) - 1
IsDigit(c) == \E i \in 1..10 : Digits[i] = c

\* the label f"{year:04d}-{month:02d}" (line 477), for 0 <= year <= 9999
\* and 0 <= month <= 99
FormatYM(year, month) ==
    << DigitChar(year \div 1000), DigitChar((year \div 100) % 10),
       DigitChar((year \div 10) % 10), DigitChar(year % 10), "-",
       DigitChar(month \div 10), DigitChar(month % 10) >>

\* a variant of the loop that wraps the month without advancing the year
RECURSIVE MonthWindow_no_carry(_, _, _)
MonthWindow_no_carry(year, month, n) ==
    IF n = 0 THEN <<>>
    ELSE <<FormatYM(year, month)>> \o
         MonthWindow_no_carry(year, IF month + 1 > 12 THEN 1 ELSE month + 1, n - 1)

\* the n labels of the loop of lines 473-481, started at (year, month)
RECURSIVE MonthWindow(_, _, _)
MonthWindow(year, month, n) ==
    IF n = 0 THEN <<>>
    ELSE <<FormatYM(year, month)>> \o
         (IF month + 1 > 12 THEN MonthWindow(year + 1, 1, n - 1)
                            ELSE MonthWindow(year, month + 1, n - 1))

\* int() of a string of digits
RECURSIVE ParseInt(_)
ParseInt(s) ==
    IF s = <<>> THEN 0 ELSE 10 * ParseInt(SubSeq(s, 1, Len(s) - 1)) + DigitValue(s[Len(s)])

\* the text after the first "-" of s, up to the next "-": s.split("-")[1]
SplitSecond(s) ==
    LET i    == CHOOSE k \in 1..Len(s) : s[k] = "-" /\ \A j \in 1..(k - 1) : s[j] # "-"
        rest == SubSeq(s, i + 1, Len(s))
        stop == IF \E k \in 1..Len(rest) : rest[k] = "-"
                THEN (CHOOSE k \in 1..Len(rest) :
                         rest[k] = "-" /\ \A j \in 1..(k - 1) : rest[j] # "-") - 1
                ELSE Len(rest)
    IN  SubSeq(rest, 1, stop)

_month_from_ym(ym) == ParseInt(SplitSecond(ym))

-----------------------------------------------------------------------------
(* generate_monthly_pattern *)

\* GENRE_PEAK_MONTH.get(g): 0 when g is no key
GENRE_PEAK_MONTH(g) ==
    CASE g = g_Sports      -> 9
      [] g = g_Racing      -> 6
      [] g = g_Shooter     -> 11
      [] g = g_Action      -> 11
      [] g = g_Fighting    -> 7
      [] g = g_RolePlaying -> 2
      [] g = g_Simulation  -> 4
      [] g = g_Platform    -> 10
      [] g = g_Misc        -> 5
      [] OTHER             -> 0

\* PUBLISHER_PEAK_MONTH.items(), keys lower-cased, in insertion order
PUBLISHER_PEAK_MONTH ==
    << <<s_nintendo, 11>>, <<s_sony, 3>>, <<s_square, 12>>,
       <<<<"n","a","m","c","o">>, 7>>, <<<<"c","a","p","c","o","m">>, 2>>,
       <<<<"u","b","i","s","o","f","t">>, 10>> >>

\* the month of the first key contained in pname, 0 when there is none
\* (the loop with break of lines 128-131)
publisher_peak(pname) ==
    LET hits == {i \in 1..Len(PUBLISHER_PEAK_MONTH) :
                    Contains(PUBLISHER_PEAK_MONTH[i][1], pname)}
    IN  IF hits = {} THEN 0
        ELSE PUBLISHER_PEAK_MONTH[CHOOSE i \in hits : \A j \in hits : i <= j][2]

\* fav_months before the random fallback (lines 121-131)
fav_months(genre_name, publisher_name) ==
    LET gm == IF Truthy(genre_name) THEN GENRE_PEAK_MONTH(strip(genre_name[1])) ELSE 0
        pm == IF Truthy(publisher_name)
              THEN publisher_peak(lower(publisher_name[1])) ELSE 0
    IN  (IF gm # 0 THEN <<gm>> ELSE <<>>) \o (IF pm # 0 THEN <<pm>> ELSE <<>>)

\* a variant that takes the first of fav_months
target_month_first(genre_name, publisher_name, d) ==
    LET fav == fav_months(genre_name, publisher_name)
        all == IF fav = <<>> THEN <<d.rand_month>> ELSE fav
    IN  all[1]

\* target_month (lines 132-135): d.rand_month is the randint(1, 12) of line
\* 133, d.fav_pick the position random.choice takes in fav_months
target_month(genre_name, publisher_name, d) ==
    LET fav == fav_months(genre_name, publisher_name)
        all == IF fav = <<>> THEN <<d.rand_month>> ELSE fav
    IN  all[(d.fav_pick % Len(all)) + 1]

\* candidate_indices (lines 136-139), 0-based
candidate_indices(months, target) ==
    LET RECURSIVE Collect(_)
        Collect(i) ==
            IF i > Len(months) THEN <<>>
            ELSE (IF _month_from_ym(months[i]) = target THEN <<i - 1>> ELSE <<>>)
                 \o Collect(i + 1)
    IN  Collect(1)

\* a variant that always draws the index with randint
main_idx_any(months, genre_name, publisher_name, d) == d.idx_pick % Len(months)

\* main_idx (line 140): d.idx_pick is the position random.choice takes in
\* candidate_indices, or the value of randint(0, num_months - 1)
main_idx(months, genre_name, publisher_name, d) ==
    LET cand == candidate_indices(months, target_month(genre_name, publisher_name, d))
    IN  IF cand # <<>> THEN cand[(d.idx_pick % Len(cand)) + 1]
        ELSE d.idx_pick % Len(months)

\* values random.gammavariate(alpha, 1.0) is sampled at, in thousandths.
\* alpha (lines 142-192) is floored at 0.15 and only shapes the distribution:
\* for every alpha > 0 the draw is a float >= 0.
GammaSamples == <<0, 500, 1000, 3000>>

\* the list f with every element evaluated, as a list comprehension builds it
List(f) == f @@ <<>>

\* samples (lines 183-193): one gammavariate draw per month
samples(months, d) ==
    List([i \in 1..Len(months) |-> GammaSamples[TapeAt(d.gamma, i - 1) + 1]])

\* v / d rounded to the nearest integer, for v >= 0 and d > 0
RDiv(v, d) == (2 * v + d) \div (2 * d)

\* a variant whose left neighbour at index 0 is samples[-1], the last sample
smoothed_sums_wrapped(smp) ==
    LET n == Len(smp)
    IN  List([i \in 1..n |->
                LET left  == IF i > 1 THEN smp[i - 1] ELSE smp[n]
                    mid   == smp[i]
                    right == IF i < n THEN smp[i + 1] ELSE smp[i]
                IN  left + 2 * mid + right])

\* left + 2 * mid + right of lines 198-201, for every index, all three read
\* from the unsmoothed samples
smoothed_sums(smp) ==
    LET n == Len(smp)
    IN  List([i \in 1..n |->
                LET left  == IF i > 1 THEN smp[i - 1] ELSE smp[i]
                    mid   == smp[i]
                    right == IF i < n THEN smp[i + 1] ELSE smp[i]
                IN  left + 2 * mid + right])

\* the 1:2:1 moving average of lines 196-201: the sums over 4.0, kept to the
\* resolution of the samples
smoothed(smp) ==
    LET sums == smoothed_sums(smp)
    IN  List([i \in 1..Len(smp) |-> RDiv(sums[i], 4)])

\* floor of the square root, by bisection on lo <= root < hi
RECURSIVE Bisect(_, _, _)
Bisect(n, lo, hi) ==
    IF hi - lo <= 1 THEN lo
    ELSE LET m == (lo + hi) \div 2
         IN  IF m * m <= n THEN Bisect(n, m, hi) ELSE Bisect(n, lo, m)

ISqrt(n) == Bisect(n, 0, 46341)

\* ratio ** 0.75 on thousandths: sqrt(x * sqrt(x))
pow075(ratio) == ISqrt(ratio * ISqrt(ratio * 1000))

\* the dynamic-range compression of lines 204-211
compressed(smo) ==
    LET n   == Len(smo)
        avg == RDiv(SumSeq(smo), n)
    IN  List([i \in 1..n |->
                IF avg <= 0 THEN smo[i]
                ELSE RDiv(avg * pow075(RDiv(smo[i] * 1000, avg)), 1000)])

\* the end-of-year multiplier of a calendar month, in hundredths (lines 216-223)
year_end_multiplier(m) ==
    CASE m = 10 -> 120
      [] m = 11 -> 150
      [] m = 12 -> 180
      [] OTHER  -> 80

\* lines 213-223
scheduled(months, publisher_name, platform_name, cmp) ==
    IF is_nintendo_title(platform_name, publisher_name)
    THEN List([i \in 1..Len(months) |->
                 RDiv(cmp[i] * year_end_multiplier(_month_from_ym(months[i])), 100)])
    ELSE cmp

\* the value before the final normalisation (lines 119-223)
monthly_composed(months, publisher_name, platform_name, d) ==
    scheduled(months, publisher_name, platform_name,
              compressed(smoothed(samples(months, d))))

\* a variant that normalises before the schedule of lines 213-223 is applied
generate_monthly_pattern_schedule_last(months, genre_name, publisher_name, platform_name, d) ==
    LET num_months == Len(months)
    IN  IF num_months = 0 THEN <<>>
        ELSE LET cmp   == compressed(smoothed(samples(months, d)))
                 total == SumSeq(cmp)
             IN  IF total <= 0
                 THEN [i \in 1..num_months |-> RDiv(WScale, num_months)]
                 ELSE [i \in 1..num_months |->
                         IF is_nintendo_title(platform_name, publisher_name)
                         THEN (Normalised(cmp[i], total) \div 100)
                              * year_end_multiplier(_month_from_ym(months[i]))
                         ELSE Normalised(cmp[i], total)]

\* the returned list of weights, in units of 1/WScale
generate_monthly_pattern(months, genre_name, publisher_name, platform_name, d) ==
    LET num_months == Len(months)
    IN  IF num_months = 0 THEN <<>>
        ELSE LET cmp   == monthly_composed(months, publisher_name, platform_name, d)
                 total == SumSeq(cmp)
             IN  IF total <= 0
                 THEN [i \in 1..num_months |-> RDiv(WScale, num_months)]
                 ELSE List([i \in 1..num_months |-> Normalised(cmp[i], total)])

\* a variant whose return for an empty list comes after the target month
\* is drawn (line 135)
monthly_random_calls_late_return(months, genre_name, publisher_name, d) ==
    IF Len(months) = 0
    THEN (IF fav_months(genre_name, publisher_name) = <<>> THEN 1 ELSE 0) + 1
    ELSE (IF fav_months(genre_name, publisher_name) = <<>> THEN 1 ELSE 0)
         + 2 + 3 + 1
         + (IF d.has_secondary THEN 4 ELSE 0)
         + 2 * Len(months)

\* number of calls of functions of the random module one call makes
monthly_random_calls(months, genre_name, publisher_name, d) ==
    IF Len(months) = 0 THEN 0
    ELSE (IF fav_months(genre_name, publisher_name) = <<>> THEN 1 ELSE 0)
         + 2                                   \* lines 135 and 140
         + 3                                   \* lines 162-164
         + 1                                   \* line 166
         + (IF d.has_secondary THEN 4 ELSE 0)  \* lines 168-172
         + 2 * Len(months)                     \* lines 191 and 193

-----------------------------------------------------------------------------
(* Pricing *)

home_consoles ==
    { <<"W","I","I">>, <<"N","E","S">>, <<"S","N","E","S">>, <<"N","6","4">>,
      <<"G","C">>, <<"P","S">>, <<"P","S","2">>, <<"P","S","3">>, <<"P","S","4">>,
      <<"X","3","6","0">>, <<"X","B">>, <<"X","O","N","E">> }
handhelds ==
    { <<"G","B">>, <<"G","B","A">>, <<"D","S">>, <<"3","D","S">>,
      <<"P","S","P">>, <<"P","S","V">> }
pcs == { <<"P","C">> }

\* a variant that compares the name as it is written
base_price_for_platform_as_written(platform_name) ==
    IF platform_name \in home_consoles THEN 6800
    ELSE IF platform_name \in handhelds THEN 4800
    ELSE IF platform_name \in pcs THEN 5980
    ELSE 6000

base_price_for_platform(platform_name) ==
    LET name == upper(platform_name)
    IN  IF name \in home_consoles THEN 6800
        ELSE IF name \in handhelds THEN 4800
        ELSE IF name \in pcs THEN 5980
        ELSE 6000

\* genre_multipliers.get(genre_name, 1.0), in hundredths
genre_multiplier(genre_name) ==
    CASE genre_name = g_RolePlaying -> 130
      [] genre_name = g_Simulation  -> 115
      [] genre_name = g_Action      -> 110
      [] genre_name = g_Shooter     -> 110
      [] genre_name = g_Sports      -> 95
      [] genre_name = g_Racing      -> 95
      [] genre_name = g_Misc        -> 85
      [] OTHER                      -> 100

\* round() of q + r/d to an integer, ties to the even one (0 <= r < d)
RoundHalfEven(q, r, d) ==
    IF 2 * r > d \/ (2 * r = d /\ q % 2 = 1) THEN q + 1 ELSE q

\* lines 341-342 of price_for_game for noise = num / den:
\* price = int(base_price * factor * noise), then the rounding to hundreds
price_at_noise(platform_name, genre_name, num, den) ==
    LET price == (base_price_for_platform(platform_name)
                    * genre_multiplier(genre_name) * num) \div (100 * den)
    IN  RoundHalfEven(price \div 100, price % 100, 100) * 100

\* price_for_game with the random.uniform(0.9, 1.1) of line 340 at a level
price_for_game(platform_name, genre_name, level) ==
    price_at_noise(platform_name, genre_name, uniform(90, 110, level), 100)

\* a variant that divides the index by the number of months
month_price_factor_over_n(month_index, total_months) ==
    IF total_months <= 1 THEN <<1, 1>>
    ELSE <<11 * total_months - 5 * month_index, 10 * total_months>>

\* month_price_factor as the fraction <<numerator, denominator>>
month_price_factor(month_index, total_months) ==
    IF total_months <= 1 THEN <<1, 1>>
    ELSE <<11 * (total_months - 1) - 5 * month_index, 10 * (total_months - 1)>>

-----------------------------------------------------------------------------
(* Seed rows and their fields *)

\* the set of CSV texts float() accepts, among those of the model: an
\* optional sign, digits, and at most one point followed by up to 4 digits
IsDecimalText(s) ==
    LET body == IF s # <<>> /\ s[1] \in {"-", "+"} THEN Tail(s) ELSE s
        dots == {i \in 1..Len(body) : body[i] = "."}
    IN  /\ body # <<>>
        /\ \A i \in 1..Len(body) : IsDigit(body[i]) \/ body[i] = "."
        /\ Cardinality(dots) <= 1
        /\ \E i \in 1..Len(body) : IsDigit(body[i])

\* float(s) in units of 1e-4
DecimalValue(s) ==
    LET neg  == s[1] = "-"
        body == IF s[1] \in {"-", "+"} THEN Tail(s) ELSE s
        dot  == IF \E i \in 1..Len(body) : body[i] = "."
                THEN CHOOSE i \in 1..Len(body) : body[i] = "."
                ELSE Len(body) + 1
        int  == ParseInt(SubSeq(body, 1, dot - 1))
        frac == SubSeq(body, dot + 1, Min(Len(body), dot + 4))
        mag  == int * 10000 + ParseInt(frac) * Pow(10, 4 - Len(frac))
    IN  IF neg THEN 0 - mag ELSE mag

\* a variant that returns the magnitude of the number
parse_float_magnitude(v) ==
    IF v = None THEN 0
    ELSE IF IsDecimalText(strip(v[1]))
    THEN LET x == DecimalValue(strip(v[1])) IN IF x < 0 THEN 0 - x ELSE x
    ELSE 0

\* parse_float of an optional CSV field, in units of 1e-4: 0.0 on a
\* TypeError (None) or a ValueError (not a number)
parse_float(v) ==
    IF v = None THEN 0
    ELSE IF IsDecimalText(strip(v[1])) THEN DecimalValue(strip(v[1]))
    ELSE 0

\* whether int(s) succeeds: digits, with optional sign and surrounding blanks
IsIntText(s) ==
    LET t    == strip(s)
        body == IF t # <<>> /\ t[1] \in {"-", "+"} THEN Tail(t) ELSE t
    IN  body # <<>> /\ \A i \in 1..Len(body) : IsDigit(body[i])

\* int(s) for a text int() accepts
IntValue(s) ==
    LET t == strip(s)
    IN  IF t[1] = "-" THEN 0 - ParseInt(Tail(t))
        ELSE IF t[1] = "+" THEN ParseInt(Tail(t))
        ELSE ParseInt(t)

-----------------------------------------------------------------------------
(* Lifetime and monthly figures of one region (lines 553-597) *)

\* volumes k (in 1e-4 million, below 1 million) for which the float product
\* round(k / 1e4, 4) * 1_000_000 lies just below 100 * k, so that int()
\* yields 100 * k - 1
TruncatedDown ==
    {157, 163, 314, 319, 321, 326, 628, 633, 638, 642, 643, 647, 652, 1251,
      1256, 1261, 1266, 1271, 1276, 1281, 1284, 1286, 1289, 1291, 1294, 1299,
      1304, 1309, 2502, 2507, 2512, 2517, 2522, 2527, 2532, 2537, 2542, 2547,
      2552, 2557, 2562, 2563, 2567, 2568, 2572, 2573, 2577, 2578, 2582, 2583,
      2588, 2593, 2598, 2603, 2608, 2613, 2618, 5003, 5004, 5005, 5013, 5014,
      5015, 5023, 5024, 5025, 5033, 5034, 5035, 5043, 5044, 5045, 5054, 5055,
      5064, 5065, 5074, 5075, 5084, 5085, 5094, 5095, 5104, 5105, 5114, 5115,
      5124, 5125, 5126, 5134, 5135, 5136, 5144, 5145, 5146, 5154, 5155, 5156,
      5164, 5165, 5166, 5175, 5176, 5185, 5186, 5195, 5196, 5205, 5206, 5215,
      5216, 5225, 5226, 5235, 5236 }

\* region_sales_m = round(base_japan_m * weight, 4) in units of 1e-4 million,
\* base_japan_m being given in copies (1e-6 million)
region_sales_m(base_japan_m, weight) ==
    LET p == MulW(base_japan_m, weight)
    IN  RoundHalfEven(p[1] \div 100, (p[1] % 100) * 2 + (IF p[2] > 0 THEN 1 ELSE 0), 200)

\* region_sales_units = int(region_sales_m * 1_000_000)
region_sales_units(sales_m) ==
    IF sales_m \in TruncatedDown THEN 100 * sales_m - 1 ELSE 100 * sales_m

\* month_sales_m = round(region_sales_m * w, 5), in units of 1e-5 million
month_sales_m(sales_m, w) ==
    LET p == MulW(10 * sales_m, w)
    IN  RoundHalfEven(p[1], p[2], WScale)

\* a variant that rounds to the nearest copy
month_units_rounded(units, w) ==
    LET p == MulW(units, w)
    IN  IF 2 * p[2] >= WScale THEN p[1] + 1 ELSE p[1]

\* month_units = int(region_sales_units * w)
month_units(units, w) == MulW(units, w)[1]

\* line 557: the region is skipped
skip_region(units) == units <= 0

\* a variant that keeps the months of zero units
skip_month_negative_only(units) == units < 0

\* line 592: the month is skipped
skip_month(units) == units <= 0

\* a variant that leaves the discount factor out
month_price_jpy_undiscounted(price_jpy, factor) == price_jpy

\* month_price_jpy = int(price_jpy * factor)
month_price_jpy(price_jpy, factor) == (price_jpy * factor[1]) \div factor[2]

-----------------------------------------------------------------------------
(* Calls of the two samplers on their own *)

p_Wii      == <<"W","i","i">>
p_PS2      == <<"P","S","2">>
p_PC       == <<"P","C">>
pub_Nintendo   == <<"N","i","n","t","e","n","d","o">>
pub_SquareEnix == <<"S","q","u","a","r","e"," ","E","n","i","x">>
pub_Sony       == <<"S","o","n","y"," ","C","o","m","p","u","t","e","r">>
pub_Sega       == <<"S","e","g","a">>
g_Puzzle       == <<"P","u","z","z","l","e">>

\* arguments the samplers are called with: None, "", recognised and not
SamplerArgs ==
    { <<None, None, None>>,
      <<Str(<<>>), Str(<<>>), Str(<<>>)>>,
      <<Str(p_Wii), Str(g_Platform), Str(pub_Nintendo)>>,
      <<Str(p_Wii), Str(g_Puzzle), Str(pub_Sega)>>,
      <<Str(p_PS2), Str(<<" ">> \o g_Sports), Str(pub_Sony)>>,
      <<Str(p_PS2), Str(g_RolePlaying), Str(pub_SquareEnix)>>,
      <<Str(p_PC), None, Str(pub_Nintendo)>> }

NoCall == [fn |-> "none"]

\* no page of the dashboard is open
NoDash == <<>>

BatchIdle ==
    /\ pc = "idle"
    /\ csv_file = [exists |-> FALSE]
    /\ db_file = [exists |-> FALSE]
    /\ rng = 0
    /\ REGION = <<>>
    /\ rows = <<>>
    /\ row_i = 0
    /\ platform_ids = <<>>
    /\ genre_ids = <<>>
    /\ publisher_ids = <<>>
    /\ game_ids = <<>>
    /\ PLATFORM = <<>>
    /\ GENRE = <<>>
    /\ PUBLISHER = <<>>
    /\ GAME = <<>>
    /\ SALE = {}
    /\ SaleMonthly = {}
    /\ last = <<>>

InitRegion ==
    /\ BatchIdle
    /\ dash = NoDash
    /\ \E a \in SamplerArgs :
          call = [fn |-> "region_weight_distribution", platform_name |-> a[1],
                  genre_name |-> a[2], publisher_name |-> a[3], returned |-> FALSE]

CallRegion ==
    /\ call.fn = "region_weight_distribution"
    /\ ~call.returned
    /\ \E d \in RegionDrawsFor(call.genre_name, call.publisher_name) :
          call' = [fn |-> call.fn, platform_name |-> call.platform_name,
                      genre_name |-> call.genre_name,
                      publisher_name |-> call.publisher_name,
                      returned |-> TRUE, draws |-> d,
                      candidates |-> biased_candidates(call.genre_name,
                                                       call.publisher_name),
                      multipliers |-> [r \in Regions |-> first_stage(r, d)],
                      result |-> region_weight_distribution(
                                    call.platform_name, call.genre_name,
                                    call.publisher_name, d)]
    /\ UNCHANGED <<batchVars, dash>>

NextRegion == CallRegion

SpecRegion == InitRegion /\ [][NextRegion]_vars

\* C1: every result of region_weight_distribution maps each of the 8 regions
\* to a non-negative weight, and the 8 weights sum to 1.0 within 1e-6.
C1_RegionWeightsNormalised ==
    (call.fn = "region_weight_distribution" /\ call.returned) =>
        /\ DOMAIN call.result = Regions
        /\ \A r \in Regions : call.result[r] >= 0
        /\ SumRegions(call.result) - WScale <= Tolerance
        /\ WScale - SumRegions(call.result) <= Tolerance

\* a call with no platform, genre or publisher that drew a secondary region
\* and two suppressed regions has returned
C1_Witness ==
    /\ call.fn = "region_weight_distribution"
    /\ call.returned
    /\ ~Truthy(call.platform_name) /\ ~Truthy(call.genre_name)
    /\ call.publisher_name = None
    /\ call.draws.secondary # "-"
    /\ Cardinality(call.draws.weak) = 2

\* C20: in every call of region_weight_distribution the secondary region,
\* when drawn, is not the main region; the 1 or 2 suppressed regions are
\* neither; so {main}, {secondary}, suppressed and the remaining regions
\* partition the 8 regions, and each region has one first-stage multiplier:
\* main in [2.0, 3.0], secondary in [1.3, 1.8], suppressed in [0.3, 0.7],
\* the others in [0.8, 1.2].
C20_FirstStagePartition ==
    (call.fn = "region_weight_distribution" /\ call.returned) =>
        LET d      == call.draws
            sec    == IF d.secondary = "-" THEN {} ELSE {d.secondary}
            others == Regions \ ({d.main} \cup sec \cup d.weak)
            mult   == call.multipliers
        IN  /\ d.main \in Regions
            /\ sec \subseteq Regions \ {d.main}
            /\ d.weak \subseteq Regions \ ({d.main} \cup sec)
            /\ Cardinality(d.weak) \in {1, 2}
            /\ 1 + Cardinality(sec) + Cardinality(d.weak) + Cardinality(others)
                  = Cardinality(Regions)
            /\ mult[d.main] >= 200 /\ mult[d.main] <= 300
            /\ \A r \in sec : mult[r] >= 130 /\ mult[r] <= 180
            /\ \A r \in d.weak : mult[r] >= 30 /\ mult[r] <= 70
            /\ \A r \in others : mult[r] >= 80 /\ mult[r] <= 120

\* a call that drew a secondary region and two suppressed regions, leaving
\* four regions to the jitter, has returned
C20_Witness ==
    /\ call.fn = "region_weight_distribution"
    /\ call.returned
    /\ call.draws.secondary \in Regions
    /\ Cardinality(call.draws.weak) = 2
    /\ call.multipliers[call.draws.secondary] >= 130
    /\ \E r \in Regions : call.multipliers[r] = 120

\* C23: the publisher bias is found by case-insensitive substring containment
\* for the regional bias and for the peak month alike: a call of
\* region_weight_distribution for a publisher whose lower-cased name contains
\* a key of PUBLISHER_REGION_PREFS ("Square Enix" contains "square") draws
\* its main region from a pool with more copies of the regions that key
\* prefers than the pool of the same genre without a publisher has, and a
\* call of generate_monthly_pattern for a publisher whose name contains a key
\* of PUBLISHER_PEAK_MONTH has the month of the first such key among the
\* months its target is chosen from.
C23_PublisherBiasBySubstring ==
    /\ (call.fn = "region_weight_distribution" /\ call.returned) =>
          \A i \in 1..Len(PUBLISHER_REGION_PREFS) :
              Contains(PUBLISHER_REGION_PREFS[i][1], lower(OrEmpty(call.publisher_name)))
                  => \A r \in DOMAIN PUBLISHER_REGION_PREFS[i][2] :
                        call.candidates[r]
                            > biased_candidates(call.genre_name, None)[r]
    /\ (call.fn = "generate_monthly_pattern" /\ call.returned /\ call.months # <<>>) =>
          \A i \in 1..Len(PUBLISHER_PEAK_MONTH) :
              ( /\ Contains(PUBLISHER_PEAK_MONTH[i][1], lower(OrEmpty(call.publisher_name)))
                /\ \A j \in 1..(i - 1) :
                      ~Contains(PUBLISHER_PEAK_MONTH[j][1],
                                lower(OrEmpty(call.publisher_name))) )
                  => /\ call.draws.rand_month = 0
                     /\ \/ call.target_month = PUBLISHER_PEAK_MONTH[i][2]
                        \/ call.draws.fav_pick = 0

\* the tapes of gammavariate draws: arithmetic progressions of sample levels
GammaTapes ==
    {[j \in 1..TapeLen |-> (a + b * j) % Len(GammaSamples)] :
        a \in 0..(Len(GammaSamples) - 1), b \in 0..(Len(GammaSamples) - 1)}

\* the draws one call of generate_monthly_pattern can make
MonthlyDrawsFor(months, genre_name, publisher_name) ==
    IF Len(months) = 0
    THEN {[rand_month |-> 0, fav_pick |-> 0, idx_pick |-> 0,
           has_secondary |-> FALSE, gamma |-> <<>>]}
    ELSE LET fav == fav_months(genre_name, publisher_name)
         IN  [rand_month : IF fav = <<>> THEN 1..12 ELSE {0},
              fav_pick : 0..(Max(1, Len(fav)) - 1),
              idx_pick : 0..(Len(months) - 1),
              has_secondary : BOOLEAN,
              gamma : GammaTapes]

\* first labels of the windows generate_monthly_pattern is called with
WindowStarts == {<<2023, 1>>, <<2023, 11>>}

InitMonthly ==
    /\ BatchIdle
    /\ dash = NoDash
    /\ \E a \in SamplerArgs, w \in WindowStarts, n \in 0..MaxMonths :
          call = [fn |-> "generate_monthly_pattern",
                  months |-> MonthWindow(w[1], w[2], n),
                  platform_name |-> a[1], genre_name |-> a[2],
                  publisher_name |-> a[3], returned |-> FALSE]

CallMonthly ==
    /\ call.fn = "generate_monthly_pattern"
    /\ ~call.returned
    /\ \E d \in MonthlyDrawsFor(call.months, call.genre_name, call.publisher_name) :
          call' = [fn |-> call.fn, months |-> call.months,
                   platform_name |-> call.platform_name,
                   genre_name |-> call.genre_name,
                   publisher_name |-> call.publisher_name,
                   returned |-> TRUE, draws |-> d,
                   target_month |-> IF call.months = <<>> THEN 0
                                    ELSE target_month(call.genre_name,
                                                      call.publisher_name, d),
                   main_idx |-> IF call.months = <<>> THEN 0
                                ELSE main_idx(call.months, call.genre_name,
                                              call.publisher_name, d),
                   samples |-> samples(call.months, d),
                   smoothed_sums |-> smoothed_sums(samples(call.months, d)),
                   compressed |-> IF call.months = <<>> THEN <<>>
                                  ELSE compressed(smoothed(samples(call.months, d))),
                   composed |-> IF call.months = <<>> THEN <<>>
                                ELSE monthly_composed(call.months, call.publisher_name,
                                                      call.platform_name, d),
                   random_calls |-> monthly_random_calls(
                                        call.months, call.genre_name,
                                        call.publisher_name, d),
                   result |-> generate_monthly_pattern(
                                 call.months, call.genre_name,
                                 call.publisher_name, call.platform_name, d)]
    /\ UNCHANGED <<batchVars, dash>>

NextMonthly == CallMonthly

SpecMonthly == InitMonthly /\ [][NextMonthly]_vars

MonthlyReturned == call.fn = "generate_monthly_pattern" /\ call.returned

\* C2: for N >= 1 month labels the result of generate_monthly_pattern is a
\* list of exactly N non-negative weights summing to 1.0 within 1e-6, and
\* when the composed total is <= 0 it is the flat 1/N list.
C2_MonthlyWeightsNormalised ==
    (MonthlyReturned /\ Len(call.months) >= 1) =>
        LET n == Len(call.months)
        IN  /\ DOMAIN call.result = 1..n
            /\ \A i \in 1..n : call.result[i] >= 0
            /\ SumSeq(call.result) - WScale <= Tolerance
            /\ WScale - SumSeq(call.result) <= Tolerance
            /\ SumSeq(call.composed) <= 0 =>
                  \A i \in 1..n : call.result[i] = RDiv(WScale, n)

\* a call on the longest window returned weights that are not all equal
C2_Witness ==
    /\ MonthlyReturned
    /\ Len(call.months) = MaxMonths
    /\ SumSeq(call.composed) > 0
    /\ \E i, j \in 1..Len(call.result) : call.result[i] # call.result[j]

\* a call whose samples are all zero returned the flat list
C2_WitnessFlat ==
    /\ MonthlyReturned
    /\ Len(call.months) = MaxMonths
    /\ SumSeq(call.composed) <= 0

\* C3: called with an empty month list, generate_monthly_pattern returns an
\* empty list and has made no call of the random module.
C3_EmptyWindow ==
    (MonthlyReturned /\ call.months = <<>>) =>
        /\ call.result = <<>>
        /\ call.random_calls = 0

\* a call with an empty month list and a Nintendo title has returned
C3_Witness ==
    /\ MonthlyReturned
    /\ call.months = <<>>
    /\ call.publisher_name = Str(pub_Nintendo)

\* the configured peak month of the genre and of the publisher of a call, 0
\* when there is none
GenrePeakOf(c) ==
    IF Truthy(c.genre_name) THEN GENRE_PEAK_MONTH(strip(c.genre_name[1])) ELSE 0
PublisherPeakOf(c) ==
    IF Truthy(c.publisher_name) THEN publisher_peak(lower(c.publisher_name[1])) ELSE 0

\* C18 (as stated): the target peak month is the genre's peak month whenever
\* the genre has one, the publisher's only when the genre has none, and a
\* random month 1..12 only when neither is configured.
C18_GenrePeakFirst ==
    (MonthlyReturned /\ call.months # <<>>) =>
        LET gm == GenrePeakOf(call)
            pm == PublisherPeakOf(call)
        IN  /\ gm # 0 => call.target_month = gm
            /\ (gm = 0 /\ pm # 0) => call.target_month = pm
            /\ (gm = 0 /\ pm = 0) => /\ call.target_month = call.draws.rand_month
                                     /\ call.target_month \in 1..12

\* C18 (as the code has it): when both the genre and the publisher have a
\* peak month, random.choice takes either of the two (the genre's at position
\* 0, the publisher's at position 1); when only one of them has, that month
\* is the target; a random month 1..12 is used only when neither has.
C18_PeakAmongConfigured ==
    (MonthlyReturned /\ call.months # <<>>) =>
        LET gm == GenrePeakOf(call)
            pm == PublisherPeakOf(call)
        IN  /\ (gm # 0 /\ pm # 0) =>
                  call.target_month = IF call.draws.fav_pick = 0 THEN gm ELSE pm
            /\ (gm # 0 /\ pm = 0) => call.target_month = gm
            /\ (gm = 0 /\ pm # 0) => call.target_month = pm
            /\ (gm = 0 /\ pm = 0) => /\ call.target_month = call.draws.rand_month
                                     /\ call.target_month \in 1..12
            /\ (gm # 0 \/ pm # 0) => call.draws.rand_month = 0

\* a call for a Platform title of Nintendo took the publisher's month 11
\* although the genre has the peak month 10
C18_Witness ==
    /\ MonthlyReturned
    /\ call.months # <<>>
    /\ GenrePeakOf(call) = 10
    /\ PublisherPeakOf(call) = 11
    /\ call.target_month = 11

\* the 0-based indices of the labels of a call whose month is its target
MatchingIndices(c) ==
    {i \in 0..(Len(c.months) - 1) : _month_from_ym(c.months[i + 1]) = c.target_month}

\* C19: whenever a label of the window has the target month, main_idx is the
\* index of such a label; in every case 0 <= main_idx <= N - 1.
C19_MainIdxOnTarget ==
    (MonthlyReturned /\ call.months # <<>>) =>
        /\ call.main_idx \in 0..(Len(call.months) - 1)
        /\ MatchingIndices(call) # {} => call.main_idx \in MatchingIndices(call)

\* a call on the longest window, one label of which has the target month,
\* chose that label although the index draw pointed at another
C19_Witness ==
    /\ MonthlyReturned
    /\ Len(call.months) = MaxMonths
    /\ Cardinality(MatchingIndices(call)) = 1
    /\ call.main_idx \in MatchingIndices(call)
    /\ call.draws.idx_pick # call.main_idx

\* the title of a call is of the Nintendo class: its platform, in upper case,
\* is one of the Nintendo platforms, or its publisher, in lower case, contains
\* "nintendo"
NintendoClass(c) ==
    \/ c.platform_name # None /\ upper(c.platform_name[1]) \in NINTENDO_PLATFORMS
    \/ c.publisher_name # None /\ Contains(s_nintendo, lower(c.publisher_name[1]))

\* the calendar month of a "YYYY-MM" label, read from its last two characters
LabelMonth(ym) == 10 * DigitValue(ym[6]) + DigitValue(ym[7])

C29_SmoothingKeepsTotal ==
    (MonthlyReturned /\ call.months # <<>>) =>
        LET n   == Len(call.months)
            smp == call.samples
            sm  == call.smoothed_sums
        IN  /\ Len(sm) = n
            /\ \A i \in 1..n :
                  sm[i] = smp[IF i = 1 THEN 1 ELSE i - 1] + 2 * smp[i]
                          + smp[IF i = n THEN n ELSE i + 1]
            /\ SumSeq(sm) = 4 * SumSeq(smp)
            /\ n = 1 => sm[1] = 4 * smp[1]

\* a call on the longest window whose first and last samples differ and whose
\* middle value was changed by the smoothing
C29_Witness ==
    /\ MonthlyReturned
    /\ Len(call.months) = MaxMonths
    /\ call.samples[1] # call.samples[MaxMonths]
    /\ \E i \in 2..(MaxMonths - 1) : call.smoothed_sums[i] # 4 * call.samples[i]

-----------------------------------------------------------------------------
(* The batch: init_db, seed_regions, build_from_csv *)

EmptyDict == [x \in {} |-> 0]

\* the product a * b of 0 <= a < 1e8 and 0 <= b < 1e5 as <<hi, lo>>,
\* worth hi * 1e8 + lo (Python integers do not overflow)
Product(a, b) ==
    LET top == (a \div 10000) * b
        bot == (a % 10000) * b
        mid == top + (bot \div 10000)
    IN  <<mid \div 10000, (mid % 10000) * 10000 + (bot % 10000)>>

\* the tables CREATEd by init_db, empty
EmptyStore ==
    [exists |-> TRUE, PLATFORM |-> <<>>, REGION |-> <<>>, GENRE |-> <<>>,
     PUBLISHER |-> <<>>, GAME |-> <<>>, SALE |-> {}, SaleMonthly |-> {}]

\* the rows of seed_regions, in insertion order
region_codes == <<"HKD", "THK", "KNT", "CHB", "KNS", "CHG", "SHK", "KYS">>
seeded_regions ==
    [i \in 1..Len(regions) |->
        [region_id |-> i, region_name |-> regions[i], region_code |-> region_codes[i]]]

\* region_ids: the dict built from SELECT region_id, region_name (line 451)
region_ids(table) ==
    [r \in {table[i].region_name : i \in 1..Len(table)} |->
        table[CHOOSE i \in 1..Len(table) : table[i].region_name = r].region_id]

\* the 36 month labels of lines 473-481
months == MonthWindow(2023, 1, 36)

\* --- random draws of one loop iteration, read from generator state k ---

\* the level of the uniform draw of price_for_game (line 340)
price_draw(k) == k % DrawLevels
\* the level of the uniform draw of line 543 or 545
volume_draw(k) == (k \div DrawLevels) % DrawLevels

\* seq without the elements of the set out
RECURSIVE Without(_, _)
Without(seq, out) ==
    IF seq = <<>> THEN <<>>
    ELSE (IF Head(seq) \in out THEN <<>> ELSE <<Head(seq)>>) \o Without(Tail(seq), out)

\* the draws of region_weight_distribution
region_draws(k) ==
    LET main   == regions[((3 * k + 2) % Len(regions)) + 1]
        others == Without(regions, {main})
        sec    == IF k % 5 < 2 THEN others[(k % Len(others)) + 1] ELSE "-"
        rest   == Without(regions, {main, sec})
        weak   == IF k % 2 = 0
                  THEN {rest[(k % Len(rest)) + 1]}
                  ELSE {rest[(k % Len(rest)) + 1], rest[((k + 3) % Len(rest)) + 1]}
    IN  [main |-> main, secondary |-> sec, weak |-> weak,
         tape |-> [j \in 1..TapeLen |-> (k + (k \div DrawLevels) * j) % DrawLevels]]

\* the draws of the call of generate_monthly_pattern made for region ri
monthly_draws(k, ri, genre_name, publisher_name) ==
    LET fav == fav_months(genre_name, publisher_name)
        ng  == Len(GammaSamples)
    IN  [rand_month |-> IF fav = <<>> THEN ((k + ri) % 12) + 1 ELSE 0,
         fav_pick |-> (k + ri) % Max(1, Len(fav)),
         idx_pick |-> (7 * k + ri) % Len(months),
         has_secondary |-> (k + ri) % 5 < 2,
         gamma |-> [j \in 1..TapeLen |-> (k + ri + (k \div 2 + ri) * j) % ng]]

\* --- one iteration of the loop over the seed rows (lines 483-615) ---

\* a variant that inserts without looking the name up in the dictionary
resolve_platform_no_lookup(st, platform) ==
    IF \E i \in 1..Len(st.PLATFORM) : st.PLATFORM[i].platform_name = platform
    THEN [st EXCEPT !.raised = "IntegrityError: PLATFORM.platform_name"]
    ELSE [st EXCEPT
            !.PLATFORM = Append(@, [platform_id |-> Len(@) + 1,
                                    platform_name |-> platform]),
            !.platform_ids = (platform :> (Len(st.PLATFORM) + 1)) @@ @]

\* lines 490-497, 502-509, 511-518: insert-if-absent of a dimension row.
\* An INSERT of a name the table already holds violates its UNIQUE constraint.
resolve_platform(st, platform) ==
    IF platform \in DOMAIN st.platform_ids THEN st
    ELSE IF \E i \in 1..Len(st.PLATFORM) : st.PLATFORM[i].platform_name = platform
    THEN [st EXCEPT !.raised = "IntegrityError: PLATFORM.platform_name"]
    ELSE [st EXCEPT
            !.PLATFORM = Append(@, [platform_id |-> Len(@) + 1,
                                    platform_name |-> platform]),
            !.platform_ids = (platform :> (Len(st.PLATFORM) + 1)) @@ @]

resolve_genre(st, genre_name) ==
    IF st.raised # "" \/ genre_name \in DOMAIN st.genre_ids THEN st
    ELSE IF \E i \in 1..Len(st.GENRE) : st.GENRE[i].genre_name = genre_name
    THEN [st EXCEPT !.raised = "IntegrityError: GENRE.genre_name"]
    ELSE [st EXCEPT
            !.GENRE = Append(@, [genre_id |-> Len(@) + 1, genre_name |-> genre_name]),
            !.genre_ids = (genre_name :> (Len(st.GENRE) + 1)) @@ @]

resolve_publisher(st, publisher_name) ==
    IF st.raised # "" \/ publisher_name \in DOMAIN st.publisher_ids THEN st
    ELSE IF \E i \in 1..Len(st.PUBLISHER) :
                st.PUBLISHER[i].publisher_name = publisher_name
    THEN [st EXCEPT !.raised = "IntegrityError: PUBLISHER.publisher_name"]
    ELSE [st EXCEPT
            !.PUBLISHER = Append(@, [publisher_id |-> Len(@) + 1,
                                     publisher_name |-> publisher_name]),
            !.publisher_ids = (publisher_name :> (Len(st.PUBLISHER) + 1)) @@ @]

\* a variant that inserts without looking the triple up in the dictionary
resolve_game_no_lookup(st, name, year_val, genre_name, publisher_name) ==
    LET game_key == <<name, year_val, publisher_name>>
    IN  IF st.raised # "" THEN st
        ELSE [st EXCEPT
                !.GAME = Append(@, [game_id |-> Len(@) + 1, game_name |-> name,
                                    release_year |-> year_val,
                                    genre_id |-> st.genre_ids[genre_name],
                                    publisher_id |-> st.publisher_ids[publisher_name]]),
                !.game_ids = (game_key :> (Len(st.GAME) + 1)) @@ @]

\* lines 520-531: GAME has no UNIQUE constraint
resolve_game(st, name, year_val, genre_name, publisher_name) ==
    LET game_key == <<name, year_val, publisher_name>>
    IN  IF st.raised # "" \/ game_key \in DOMAIN st.game_ids THEN st
        ELSE [st EXCEPT
                !.GAME = Append(@, [game_id |-> Len(@) + 1, game_name |-> name,
                                    release_year |-> year_val,
                                    genre_id |-> st.genre_ids[genre_name],
                                    publisher_id |-> st.publisher_ids[publisher_name]]),
                !.game_ids = (game_key :> (Len(st.GAME) + 1)) @@ @]

\* a variant that takes a JP figure of zero for a volume
base_japan_m_zero_kept(row) ==
    LET jp_sales_m     == parse_float(row.JP_Sales)
        global_sales_m == parse_float(row.Global_Sales)
    IN  IF jp_sales_m >= 0 THEN jp_sales_m ELSE global_sales_m

\* lines 534-536, in units of 1e-4 million
base_japan_m(row) ==
    LET jp_sales_m     == parse_float(row.JP_Sales)
        global_sales_m == parse_float(row.Global_Sales)
    IN  IF jp_sales_m > 0 THEN jp_sales_m ELSE global_sales_m

\* a variant that amplifies every title of the publisher, whatever its genre
adjusted_base_all_amplified(base, genre_name, publisher_name, level) ==
    IF publisher_name = pub_Nintendo
    THEN base * uniform(155, 170, level)
    ELSE base * 100

\* lines 541-545: the volume after the publisher adjustment, in copies
\* (1e-6 million)
adjusted_base(base, genre_name, publisher_name, level) ==
    IF publisher_name = pub_Nintendo
    THEN IF genre_name = g_Platform
         THEN base * uniform(155, 170, level)
         ELSE base * uniform(88, 95, level)
    ELSE base * 100

\* lines 589-615: the SaleMonthly rows of one region
monthly_rows(game_id, platform_id, region_id, sales_m, units, price_jpy, weights) ==
    LET total_months == Len(months)
        n == Min(Len(months), Len(weights))
    IN  { [game_id |-> game_id, platform_id |-> platform_id, region_id |-> region_id,
           year_month |-> months[i],
           sales_million |-> month_sales_m(sales_m, weights[i]),
           sales_units |-> month_units(units, weights[i]),
           revenue_jpy |-> Product(month_units(units, weights[i]),
                              month_price_jpy(price_jpy,
                                  month_price_factor(i - 1, total_months)))]
          : i \in {j \in 1..n : ~skip_month(month_units(units, weights[j]))} }

\* --- the seed catalog ---

n_Mario  == <<"M","a","r","i","o">>
n_Quest  == <<"Q","u","e","s","t">>
n_Tiny   == <<"T","i","n","y">>
y_2006   == <<"2","0","0","6">>
y_2007   == <<"2","0","0","7">>

SeedRow(name, platform, year, genre, publisher, jp, global) ==
    [Name |-> name, Platform |-> platform, Year |-> year, Genre |-> genre,
     Publisher |-> publisher, JP_Sales |-> jp, Global_Sales |-> global]

\* the rows a seed file of the model is made of
SeedRows ==
    { SeedRow(n_Mario, p_Wii, y_2006, g_Platform, pub_Nintendo,
              Str(<<"0",".","0","5">>), Str(<<"1",".","2">>)),
      SeedRow(n_Mario \o <<" ">>, <<"D","S">>, y_2006, g_Sports, pub_Nintendo,
              Str(<<"0">>), Str(<<"0",".","3">>)),
      SeedRow(n_Mario, <<" ">> \o p_Wii, y_2007, g_Sports, pub_Sega,
              Str(<<"0">>), Str(<<"1",".","2">>)),
      SeedRow(n_Quest, p_PS2, y_2006, g_RolePlaying, pub_SquareEnix,
              Str(<<"0">>), Str(<<"0",".","0">>)),
      SeedRow(n_Quest, <<"w","i","i">>, y_2006, g_RolePlaying, pub_Sony,
              Str(<<"-","0",".","5">>), Str(<<"N","/","A">>)),
      SeedRow(n_Tiny, p_PS2, <<" ","1","9","9","9"," ">>, g_Misc, pub_Sega,
              Str(<<"0",".","0","0","0","2">>), None),
      SeedRow(n_Tiny, p_PC, <<"N","/","A">>, g_Misc, pub_Sega,
              Str(<<"0",".","0","2">>), Str(<<"0",".","0","2">>)) }

\* the (genre, publisher, platform) of the titles of the seed rows
PatternKeys ==
    {<<strip(r.Genre), strip(r.Publisher), strip(r.Platform)>> : r \in SeedRows}

\* line 587: the weights generate_monthly_pattern returns for the call made
\* with the generator in state k, for the i-th region of a title
monthly_patterns ==
    List([k \in 0..(NumStreams - 1), i \in 1..Len(regions), t \in PatternKeys |->
            generate_monthly_pattern(months, Str(t[1]), Str(t[2]), Str(t[3]),
                                     monthly_draws(k, i, Str(t[1]), Str(t[2])))])

\* a variant whose inserts never violate the key of SALE
RECURSIVE insert_regions_replacing(_, _, _)
insert_regions_replacing(i, st, c) ==
    IF i > Len(regions) \/ st.raised # "" THEN st
    ELSE
      LET region_name == regions[i]
          region_id   == c.region_ids[region_name]
          sales_m     == region_sales_m(c.base, c.region_weights[region_name])
          units       == region_sales_units(sales_m)
      IN  IF skip_region(units) THEN insert_regions_replacing(i + 1, st, c)
          ELSE
            LET sale == [game_id |-> c.game_id, platform_id |-> c.platform_id,
                         region_id |-> region_id, sales_million |-> sales_m,
                         sales_units |-> units,
                         revenue_jpy |-> Product(units, c.price_jpy)]
                weights == monthly_patterns[c.k, i, <<c.genre_name, c.publisher_name,
                                                      c.platform>>]
            IN  insert_regions_replacing(i + 1,
                    [st EXCEPT
                        !.SALE = @ \cup {sale},
                        !.SaleMonthly = @ \cup
                            monthly_rows(c.game_id, c.platform_id, region_id,
                                         sales_m, units, c.price_jpy, weights)],
                    c)

\* lines 550-615 from the i-th region on.  An INSERT INTO SALE of a key the
\* table holds violates its PRIMARY KEY.  (A SaleMonthly key is new whenever
\* the SALE key is: both are inserted by the same iteration.)
RECURSIVE insert_regions(_, _, _)
insert_regions(i, st, c) ==
    IF i > Len(regions) \/ st.raised # "" THEN st
    ELSE
      LET region_name == regions[i]
          region_id   == c.region_ids[region_name]
          sales_m     == region_sales_m(c.base, c.region_weights[region_name])
          units       == region_sales_units(sales_m)
      IN  IF skip_region(units) THEN insert_regions(i + 1, st, c)
          ELSE IF \E x \in st.SALE : /\ x.game_id = c.game_id
                                     /\ x.platform_id = c.platform_id
                                     /\ x.region_id = region_id
          THEN [st EXCEPT !.raised = "IntegrityError: SALE primary key"]
          ELSE
            LET sale == [game_id |-> c.game_id, platform_id |-> c.platform_id,
                         region_id |-> region_id, sales_million |-> sales_m,
                         sales_units |-> units,
                         revenue_jpy |-> Product(units, c.price_jpy)]
                weights == monthly_patterns[c.k, i, <<c.genre_name, c.publisher_name,
                                                      c.platform>>]
            IN  insert_regions(i + 1,
                    [st EXCEPT
                        !.SALE = @ \cup {sale},
                        !.SaleMonthly = @ \cup
                            monthly_rows(c.game_id, c.platform_id, region_id,
                                         sales_m, units, c.price_jpy, weights)],
                    c)

\* a variant that tests the base volume before it resolves the dimensions
process_row_volume_first(st0, row, k, rids) ==
    IF ~IsIntText(row.Year)
    THEN [st0 EXCEPT !.raised = "ValueError"]
    ELSE IF base_japan_m(row) <= 0
    THEN [st0 EXCEPT !.last = [skipped |-> TRUE, base_japan_m |-> base_japan_m(row),
                               game_id |-> 0, platform_id |-> 0]]
    ELSE
      LET name           == strip(row.Name)
          platform       == strip(row.Platform)
          year_val       == IntValue(row.Year)
          genre_name     == strip(row.Genre)
          publisher_name == strip(row.Publisher)
          st1 == resolve_platform(st0, platform)
          price_jpy == price_for_game(platform, genre_name, price_draw(k))
          st2 == resolve_genre(st1, genre_name)
          st3 == resolve_publisher(st2, publisher_name)
          st4 == resolve_game(st3, name, year_val, genre_name, publisher_name)
          base == base_japan_m(row)
      IN  IF st4.raised # "" THEN st4
          ELSE IF base <= 0
          THEN [st4 EXCEPT !.last = [skipped |-> TRUE, base_japan_m |-> base,
                                     game_id |-> st4.game_ids[<<name, year_val,
                                                                 publisher_name>>],
                                     platform_id |-> st4.platform_ids[platform]]]
          ELSE
            LET adjusted == adjusted_base(base, genre_name, publisher_name,
                                          volume_draw(k))
                rd == region_draws(k)
                region_weights == region_weight_distribution(
                                      Str(platform), Str(genre_name),
                                      Str(publisher_name), rd)
                c == [game_id |-> st4.game_ids[<<name, year_val, publisher_name>>],
                      platform_id |-> st4.platform_ids[platform],
                      region_ids |-> rids, base |-> adjusted,
                      region_weights |-> region_weights, price_jpy |-> price_jpy,
                      genre_name |-> genre_name, publisher_name |-> publisher_name,
                      platform |-> platform, k |-> k]
            IN  insert_regions(1,
                    [st4 EXCEPT !.last = [skipped |-> FALSE, base_japan_m |-> base,
                                          adjusted |-> adjusted,
                                          region_weights |-> region_weights,
                                          price_jpy |-> price_jpy,
                                          game_id |-> c.game_id,
                                          platform_id |-> c.platform_id]],
                    c)

\* the body of the loop for one seed row, with the generator in state k
process_row(st0, row, k, rids) ==
    IF ~IsIntText(row.Year)
    THEN [st0 EXCEPT !.raised = "ValueError"]
    ELSE
      LET name           == strip(row.Name)
          platform       == strip(row.Platform)
          year_val       == IntValue(row.Year)
          genre_name     == strip(row.Genre)
          publisher_name == strip(row.Publisher)
          st1 == resolve_platform(st0, platform)
          price_jpy == price_for_game(platform, genre_name, price_draw(k))
          st2 == resolve_genre(st1, genre_name)
          st3 == resolve_publisher(st2, publisher_name)
          st4 == resolve_game(st3, name, year_val, genre_name, publisher_name)
          base == base_japan_m(row)
      IN  IF st4.raised # "" THEN st4
          ELSE IF base <= 0
          THEN [st4 EXCEPT !.last = [skipped |-> TRUE, base_japan_m |-> base,
                                     game_id |-> st4.game_ids[<<name, year_val,
                                                                 publisher_name>>],
                                     platform_id |-> st4.platform_ids[platform]]]
          ELSE
            LET adjusted == adjusted_base(base, genre_name, publisher_name,
                                          volume_draw(k))
                rd == region_draws(k)
                region_weights == region_weight_distribution(
                                      Str(platform), Str(genre_name),
                                      Str(publisher_name), rd)
                c == [game_id |-> st4.game_ids[<<name, year_val, publisher_name>>],
                      platform_id |-> st4.platform_ids[platform],
                      region_ids |-> rids, base |-> adjusted,
                      region_weights |-> region_weights, price_jpy |-> price_jpy,
                      genre_name |-> genre_name, publisher_name |-> publisher_name,
                      platform |-> platform, k |-> k]
            IN  insert_regions(1,
                    [st4 EXCEPT !.last = [skipped |-> FALSE, base_japan_m |-> base,
                                          adjusted |-> adjusted,
                                          region_weights |-> region_weights,
                                          price_jpy |-> price_jpy,
                                          game_id |-> c.game_id,
                                          platform_id |-> c.platform_id]],
                    c)


Catalogs == UNION {[1..n -> SeedRows] : n \in 0..MaxRows}

NoRow == [row_i |-> 0, raised |-> ""]

\* a store file an earlier run of the script committed, for another seed file
OldStore ==
    [exists |-> TRUE,
     PLATFORM |-> <<[platform_id |-> 1, platform_name |-> <<"G","B">>]>>,
     REGION |-> seeded_regions,
     GENRE |-> <<[genre_id |-> 1, genre_name |-> g_Puzzle]>>,
     PUBLISHER |-> <<[publisher_id |-> 1, publisher_name |-> <<"O","l","d">>]>>,
     GAME |-> <<[game_id |-> 1, game_name |-> <<"O","l","d">>, release_year |-> 1989,
                 genre_id |-> 1, publisher_id |-> 1]>>,
     SALE |-> {[game_id |-> 1, platform_id |-> 1, region_id |-> 3,
                sales_million |-> 100, sales_units |-> 10000,
                revenue_jpy |-> <<0, 48000000>>]},
     SaleMonthly |-> {[game_id |-> 1, platform_id |-> 1, region_id |-> 3,
                       year_month |-> months[1], sales_million |-> 1000,
                       sales_units |-> 10000, revenue_jpy |-> <<0, 52000000>>]}]

\* --- the steps of the script (lines 620-624) ---

Init ==
    /\ call = NoCall
    /\ dash = NoDash
    /\ csv_file \in {[exists |-> FALSE]} \cup
                    {[exists |-> TRUE, rows |-> c] : c \in Catalogs}
    /\ db_file \in {[exists |-> FALSE], OldStore}
    /\ rng \in 0..(NumStreams - 1)
    /\ pc = "start"
    /\ rows = <<>>
    /\ row_i = 0
    /\ platform_ids = EmptyDict
    /\ genre_ids = EmptyDict
    /\ publisher_ids = EmptyDict
    /\ game_ids = EmptyDict
    /\ PLATFORM = <<>>
    /\ GENRE = <<>>
    /\ PUBLISHER = <<>>
    /\ GAME = <<>>
    /\ SALE = {}
    /\ SaleMonthly = {}
    /\ REGION = <<>>
    /\ last = NoRow

\* a variant that keeps an existing file and creates only the missing tables
InitDb_keep_existing ==
    /\ pc = "start"
    /\ pc' = "opened"
    /\ db_file' = IF db_file.exists THEN db_file ELSE EmptyStore
    /\ PLATFORM' = db_file'.PLATFORM /\ GENRE' = db_file'.GENRE
    /\ PUBLISHER' = db_file'.PUBLISHER /\ GAME' = db_file'.GAME
    /\ SALE' = db_file'.SALE /\ SaleMonthly' = db_file'.SaleMonthly
    /\ REGION' = <<>>
    /\ last' = [row_i |-> 0, raised |-> "", unlinked |-> FALSE]
    /\ UNCHANGED <<call, dash, csv_file, rng, rows, row_i, platform_ids, genre_ids,
                   publisher_ids, game_ids>>

\* init_db: the file is removed, the empty tables are created and committed
InitDb ==
    /\ pc = "start"
    /\ pc' = "opened"
    /\ db_file' = EmptyStore
    /\ PLATFORM' = <<>> /\ GENRE' = <<>> /\ PUBLISHER' = <<>> /\ GAME' = <<>>
    /\ SALE' = {} /\ SaleMonthly' = {} /\ REGION' = <<>>
    /\ last' = [row_i |-> 0, raised |-> "", unlinked |-> db_file.exists]
    /\ UNCHANGED <<call, dash, csv_file, rng, rows, row_i, platform_ids, genre_ids,
                   publisher_ids, game_ids>>

\* build_from_csv, lines 455-457: the seed file is missing
BuildMissing ==
    /\ pc = "opened"
    /\ ~csv_file.exists
    /\ pc' = "failed"
    /\ last' = [last EXCEPT !.raised = "FileNotFoundError"]
    /\ UNCHANGED <<call, dash, csv_file, db_file, rng, rows, row_i, platform_ids,
                   genre_ids, publisher_ids, game_ids, PLATFORM, GENRE, PUBLISHER,
                   GAME, SALE, SaleMonthly, REGION>>

\* build_from_csv, lines 459-481: rows read, dicts created, regions seeded
BuildBegin ==
    /\ pc = "opened"
    /\ csv_file.exists
    /\ pc' = "rows"
    /\ rows' = csv_file.rows
    /\ row_i' = 1
    /\ platform_ids' = EmptyDict
    /\ genre_ids' = EmptyDict
    /\ publisher_ids' = EmptyDict
    /\ game_ids' = EmptyDict
    /\ REGION' = seeded_regions
    /\ UNCHANGED <<call, dash, csv_file, db_file, rng, PLATFORM, GENRE, PUBLISHER, GAME,
                   SALE, SaleMonthly, last>>

\* one iteration of the loop of line 483; an exception ends the script
ProcessRow ==
    /\ pc = "rows"
    /\ row_i <= Len(rows)
    /\ \E out \in {process_row(
                [raised |-> "", last |-> EmptyDict,
                 platform_ids |-> platform_ids, genre_ids |-> genre_ids,
                 publisher_ids |-> publisher_ids, game_ids |-> game_ids,
                 PLATFORM |-> PLATFORM, GENRE |-> GENRE, PUBLISHER |-> PUBLISHER,
                 GAME |-> GAME, SALE |-> SALE, SaleMonthly |-> SaleMonthly],
                rows[row_i], rng, region_ids(REGION))} :
           /\ platform_ids' = out.platform_ids
           /\ genre_ids' = out.genre_ids
           /\ publisher_ids' = out.publisher_ids
           /\ game_ids' = out.game_ids
           /\ PLATFORM' = out.PLATFORM
           /\ GENRE' = out.GENRE
           /\ PUBLISHER' = out.PUBLISHER
           /\ GAME' = out.GAME
           /\ SALE' = out.SALE
           /\ SaleMonthly' = out.SaleMonthly
           /\ last' = [row_i |-> row_i, raised |-> out.raised] @@ out.last
           /\ pc' = IF out.raised = "" THEN "rows" ELSE "failed"
           /\ row_i' = IF out.raised = "" THEN row_i + 1 ELSE row_i
    /\ rng' = (rng + 1) % NumStreams
    /\ UNCHANGED <<call, dash, csv_file, db_file, rows, REGION>>

\* a variant whose commit is inside the loop over the rows
Commit_in_loop ==
    /\ pc = "rows"
    /\ row_i > 1
    /\ db_file.SALE # SALE \/ Len(db_file.GAME) # Len(GAME) \/ row_i > Len(rows)
    /\ pc' = IF row_i > Len(rows) THEN "done" ELSE "rows"
    /\ db_file' = [exists |-> TRUE, PLATFORM |-> PLATFORM, REGION |-> REGION,
                   GENRE |-> GENRE, PUBLISHER |-> PUBLISHER, GAME |-> GAME,
                   SALE |-> SALE, SaleMonthly |-> SaleMonthly]
    /\ UNCHANGED <<call, dash, csv_file, rng, rows, row_i, platform_ids, genre_ids,
                   publisher_ids, game_ids, PLATFORM, GENRE, PUBLISHER, GAME,
                   SALE, SaleMonthly, REGION, last>>

\* conn.commit() of line 617, after the last row
Commit ==
    /\ pc = "rows"
    /\ row_i > Len(rows)
    /\ pc' = "done"
    /\ db_file' = [exists |-> TRUE, PLATFORM |-> PLATFORM, REGION |-> REGION,
                   GENRE |-> GENRE, PUBLISHER |-> PUBLISHER, GAME |-> GAME,
                   SALE |-> SALE, SaleMonthly |-> SaleMonthly]
    /\ UNCHANGED <<call, dash, csv_file, rng, rows, row_i, platform_ids, genre_ids,
                   publisher_ids, game_ids, PLATFORM, GENRE, PUBLISHER, GAME,
                   SALE, SaleMonthly, REGION, last>>

Next == InitDb \/ BuildMissing \/ BuildBegin \/ ProcessRow \/ Commit

Spec == Init /\ [][Next]_vars


-----------------------------------------------------------------------------
(* Calls of the pricing functions on their own *)

\* platform codes in several spellings
PriceHome     == { <<"W","I","I">>, <<"W","i","i">>, <<"w","i","i">>, <<"p","s","2">>,
                   <<"X","O","n","e">> }
PriceHandheld == { <<"D","S">>, <<"d","s">>, <<"3","d","s">>, <<"P","s","p">> }
PricePc       == { <<"P","C">>, <<"p","c">>, <<"P","c">> }
PriceOther    == { <<>>, <<"S","A","T">>, <<"2","6","0","0">>, <<" ","W","i","i">> }
PricePlatforms == PriceHome \cup PriceHandheld \cup PricePc \cup PriceOther

PriceGenres ==
    { g_RolePlaying, g_Simulation, g_Action, g_Shooter, g_Sports, g_Racing, g_Misc,
      g_Platform, g_Puzzle, <<"m","i","s","c">> }

\* the jitter 0.9 + 0.2 * k / JitterSteps as <<numerator, denominator>>
Jitter(k) == <<9 * JitterSteps + 2 * k, 10 * JitterSteps>>

InitPricing ==
    /\ BatchIdle
    /\ dash = NoDash
    /\ \/ \E p \in PricePlatforms :
             call = [fn |-> "base_price_for_platform", platform_name |-> p,
                     returned |-> FALSE]
       \/ \E p \in PricePlatforms, g \in PriceGenres :
             call = [fn |-> "price_for_game", platform_name |-> p, genre_name |-> g,
                     returned |-> FALSE]
       \/ \E n \in 0..Len(months) : \E i \in 0..Max(0, n - 1) :
             call = [fn |-> "month_price_factor", month_index |-> i,
                     total_months |-> n, returned |-> FALSE]

CallBasePrice ==
    /\ call.fn = "base_price_for_platform"
    /\ ~call.returned
    /\ call' = [call EXCEPT !.returned = TRUE] @@
               [result |-> base_price_for_platform(call.platform_name)]
    /\ UNCHANGED <<batchVars, dash>>

CallPriceForGame ==
    /\ call.fn = "price_for_game"
    /\ ~call.returned
    /\ \E k \in 0..JitterSteps :
          call' = [call EXCEPT !.returned = TRUE] @@
                  [base_price |-> base_price_for_platform(call.platform_name),
                   factor |-> genre_multiplier(call.genre_name),
                   noise |-> Jitter(k),
                   result |-> price_at_noise(call.platform_name, call.genre_name,
                                             Jitter(k)[1], Jitter(k)[2])]
    /\ UNCHANGED <<batchVars, dash>>

CallMonthPriceFactor ==
    /\ call.fn = "month_price_factor"
    /\ ~call.returned
    /\ call' = [call EXCEPT !.returned = TRUE] @@
               [result |-> month_price_factor(call.month_index, call.total_months)]
    /\ UNCHANGED <<batchVars, dash>>

NextPricing == CallBasePrice \/ CallPriceForGame \/ CallMonthPriceFactor

SpecPricing == InitPricing /\ [][NextPricing]_vars

\* C13: for N >= 2 and 0 <= i <= N-1, month_price_factor(i, N) is
\* 1.1 - 0.5 * i / (N - 1): 1.1 at i = 0, 0.6 at i = N - 1, the same step
\* between consecutive indices; for N <= 1 it is 1.0.
C13_MonthPriceFactorLinear ==
    (call.fn = "month_price_factor" /\ call.returned) =>
        LET i == call.month_index
            n == call.total_months
            f == call.result
        IN  /\ f[2] > 0
            /\ n <= 1 => f[1] = f[2]
            /\ n >= 2 => f[1] * 10 * (n - 1) = f[2] * (11 * (n - 1) - 5 * i)
            /\ (n >= 2 /\ i = 0) => 10 * f[1] = 11 * f[2]
            /\ (n >= 2 /\ i = n - 1) => 10 * f[1] = 6 * f[2]

\* the factor of the last month of the 36-month window was returned
C13_Witness ==
    /\ call.fn = "month_price_factor"
    /\ call.returned
    /\ call.total_months = 36
    /\ call.month_index = 35
    /\ 10 * call.result[1] = 6 * call.result[2]

\* C15: base_price_for_platform returns 6800 for a home console, 4800 for a
\* handheld, 5980 for PC and 6000 for any other code, in any letter case; in
\* price_for_game, platform "WII" with genre "Platform" has base 6800 and
\* genre multiplier 1.0.
C15_BasePriceByClass ==
    /\ (call.fn = "base_price_for_platform" /\ call.returned) =>
          /\ call.platform_name \in PriceHome => call.result = 6800
          /\ call.platform_name \in PriceHandheld => call.result = 4800
          /\ call.platform_name \in PricePc => call.result = 5980
          /\ call.platform_name \in PriceOther => call.result = 6000
    /\ (call.fn = "price_for_game" /\ call.returned
            /\ call.platform_name = <<"W","I","I">> /\ call.genre_name = g_Platform) =>
          /\ call.base_price = 6800
          /\ call.factor = 100

\* the base price of the lower-case code "wii" was returned
C15_Witness ==
    /\ call.fn = "base_price_for_platform"
    /\ call.returned
    /\ call.platform_name = <<"w","i","i">>
    /\ call.result = 6800

\* C16: for every platform, genre and jitter in [0.9, 1.1] the result of
\* price_for_game is a positive multiple of 100 within 50 of
\* base price x genre multiplier x jitter.
C16_PriceNearestHundred ==
    (call.fn = "price_for_game" /\ call.returned) =>
        LET exact == call.base_price * call.factor * call.noise[1]
            unit  == 100 * call.noise[2]
        IN  /\ call.result > 0
            /\ call.result % 100 = 0
            /\ call.result * unit - exact <= 50 * unit
            /\ exact - call.result * unit <= 50 * unit

-----------------------------------------------------------------------------
(* Properties of the batch *)

RECURSIVE SumUnits(_)
SumUnits(S) ==
    IF S = {} THEN 0
    ELSE LET x == CHOOSE y \in S : TRUE
         IN  x.sales_units + SumUnits(S \ {x})

\* the SaleMonthly rows of a SALE row's (game, platform, region)
MonthlyOf(s) ==
    {m \in SaleMonthly : /\ m.game_id = s.game_id
                         /\ m.platform_id = s.platform_id
                         /\ m.region_id = s.region_id}

\* the SALE rows of the iteration `last` describes
SalesOfLast ==
    {s \in SALE : s.game_id = last.game_id /\ s.platform_id = last.platform_id}

\* the last iteration reached the regional distribution and raised nothing
LastDistributed ==
    /\ pc \in {"rows", "done"}
    /\ last.row_i >= 1
    /\ ~last.skipped

\* C4: for every (title, platform, region) with a SALE row, the sales_units
\* of its SaleMonthly rows sum to at most the sales_units of the SALE row.
C4_MonthlyUnitsWithinLifetime ==
    \A s \in SALE : SumUnits(MonthlyOf(s)) <= s.sales_units

\* a committed store holds a SALE row whose months lost units by truncation
\* and some of whose 36 months were skipped
C4_Witness ==
    /\ pc = "done"
    /\ \E s \in SALE :
          /\ MonthlyOf(s) # {}
          /\ Cardinality(MonthlyOf(s)) < Len(months)
          /\ SumUnits(MonthlyOf(s)) < s.sales_units

\* C5: for every seed row that reaches regional distribution, the stored
\* lifetime sales_units of its regions are non-negative and sum to at most
\* the adjusted national volume in copies.
C5_RegionUnitsWithinVolume ==
    [][ (pc = "rows" /\ pc' = "rows" /\ row_i' = row_i + 1 /\ ~last'.skipped) =>
            /\ \A s \in SALE' \ SALE : s.sales_units >= 0
            /\ SumUnits(SALE' \ SALE) <= last'.adjusted ]_vars

\* C6: every SALE row and every SaleMonthly row has sales_units > 0.
C6_NoZeroRows ==
    /\ \A s \in SALE : s.sales_units > 0
    /\ \A m \in SaleMonthly : m.sales_units > 0

\* a row was distributed with fewer than 8 regions stored, and one of its
\* stored regions has fewer than 36 months stored
C6_Witness ==
    /\ LastDistributed
    /\ SalesOfLast # {}
    /\ Cardinality(SalesOfLast) < Len(regions)
    /\ \E s \in SalesOfLast : Cardinality(MonthlyOf(s)) < Len(months)

\* the seed row the iteration `last` describes
LastRow == rows[last.row_i]

\* the last iteration ran to its end without raising
LastProcessed == pc \in {"rows", "done"} /\ last.row_i >= 1

\* C7: the base national volume of a seed row is its JP figure when that is
\* > 0 and its global figure otherwise; a row with JP 0 and global 1.2 gets
\* base volume 1.2 and proceeds to the regional distribution.
C7_BaseVolumeFallback ==
    LastProcessed =>
        LET jp == parse_float(LastRow.JP_Sales)
            gl == parse_float(LastRow.Global_Sales)
        IN  /\ jp > 0 => last.base_japan_m = jp
            /\ jp <= 0 => last.base_japan_m = gl
            /\ (LastRow.JP_Sales = Str(<<"0">>)
                    /\ LastRow.Global_Sales = Str(<<"1",".","2">>)) =>
                  /\ last.base_japan_m = 12000
                  /\ ~last.skipped
                  /\ SalesOfLast # {}

\* a row with JP 0 and global 1.2 was distributed over the regions
C7_Witness ==
    /\ LastProcessed
    /\ LastRow.JP_Sales = Str(<<"0">>)
    /\ LastRow.Global_Sales = Str(<<"1",".","2">>)
    /\ last.base_japan_m = 12000
    /\ Cardinality(SalesOfLast) = Len(regions)

\* a volume field that is absent, unparsable, zero or negative
NonPositiveText(v) ==
    \/ v = None
    \/ v \in {Str(<<"0">>), Str(<<"0",".","0">>), Str(<<"-","0",".","5">>),
              Str(<<"N","/","A">>)}

\* C8: the iteration over a seed row whose JP and global volumes are both
\* <= 0 adds no SALE row and no SaleMonthly row, raises nothing, and moves
\* on to the next seed row.
C8_ZeroVolumeRowSkipped ==
    [][ ( /\ pc = "rows"
          /\ row_i <= Len(rows)
          /\ IsIntText(rows[row_i].Year)
          /\ NonPositiveText(rows[row_i].JP_Sales)
          /\ NonPositiveText(rows[row_i].Global_Sales) )
        => ( /\ SALE' = SALE
             /\ SaleMonthly' = SaleMonthly
             /\ pc' = "rows"
             /\ row_i' = row_i + 1
             /\ last'.raised = ""
             /\ last'.skipped ) ]_vars

\* a file whose first row has no positive volume was processed to the end,
\* and its second row was distributed
C8_Witness ==
    /\ pc = "done"
    /\ Len(rows) = 2
    /\ NonPositiveText(rows[1].JP_Sales)
    /\ NonPositiveText(rows[1].Global_Sales)
    /\ LastDistributed
    /\ last.row_i = 2
    /\ SALE # {}

\* the (name, release_year, publisher) triple of a seed row
TripleOf(row) == <<strip(row.Name), IntValue(row.Year), strip(row.Publisher)>>

\* C9: GAME holds exactly one row per distinct (name, release_year,
\* publisher) triple of the seed rows processed, and game_ids maps each
\* triple to the game_id of that row.
C9_OneGamePerTriple ==
    LastProcessed \/ (pc = "rows" /\ row_i = 1) =>
        LET n == row_i - 1
        IN  /\ Len(GAME) = Cardinality({TripleOf(rows[i]) : i \in 1..n})
            /\ \A g \in 1..Len(GAME) : GAME[g].game_id = g
            /\ DOMAIN game_ids = {TripleOf(rows[i]) : i \in 1..n}
            /\ \A i \in 1..n :
                  LET key == TripleOf(rows[i])
                      g   == GAME[game_ids[key]]
                  IN  /\ g.game_name = key[1]
                      /\ g.release_year = key[2]
                      /\ PUBLISHER[g.publisher_id].publisher_name = key[3]

\* two rows of one title on two platforms were committed with one GAME row,
\* and their names differ only by surrounding blanks
C9_Witness ==
    /\ pc = "done"
    /\ Len(rows) = 2
    /\ rows[1].Name # rows[2].Name
    /\ rows[1].Platform # rows[2].Platform
    /\ TripleOf(rows[1]) = TripleOf(rows[2])
    /\ Len(GAME) = 1
    /\ Cardinality({s.platform_id : s \in SALE}) = 2

\* the elements of seq in the order of their first occurrence
RECURSIVE FirstSeen(_)
FirstSeen(seq) ==
    IF seq = <<>> THEN <<>>
    ELSE LET front == FirstSeen(SubSeq(seq, 1, Len(seq) - 1))
             x     == seq[Len(seq)]
         IN  IF \E i \in 1..Len(front) : front[i] = x THEN front
             ELSE Append(front, x)

\* the stripped names of a column of the first n seed rows
NamesSeen(column, n) == FirstSeen([i \in 1..n |-> strip(rows[i][column])])

\* a dictionary that maps each name of seq to its position
Positions(seq) ==
    [x \in {seq[i] : i \in 1..Len(seq)} |-> CHOOSE i \in 1..Len(seq) : seq[i] = x]

\* C10: PLATFORM, GENRE and PUBLISHER each hold one row per distinct stripped,
\* case-sensitive name of the seed rows processed, with ids in the order of
\* first appearance; each dictionary maps every name to the id of its row;
\* no insert ever violates a UNIQUE constraint of the three tables.
C10_OneRowPerName ==
    /\ last.raised \notin {"IntegrityError: PLATFORM.platform_name",
                           "IntegrityError: GENRE.genre_name",
                           "IntegrityError: PUBLISHER.publisher_name"}
    /\ LastProcessed =>
        LET n  == row_i - 1
            pl == NamesSeen("Platform", n)
            ge == NamesSeen("Genre", n)
            pu == NamesSeen("Publisher", n)
        IN  /\ PLATFORM = [i \in 1..Len(pl) |->
                              [platform_id |-> i, platform_name |-> pl[i]]]
            /\ GENRE = [i \in 1..Len(ge) |-> [genre_id |-> i, genre_name |-> ge[i]]]
            /\ PUBLISHER = [i \in 1..Len(pu) |->
                               [publisher_id |-> i, publisher_name |-> pu[i]]]
            /\ platform_ids = Positions(pl)
            /\ genre_ids = Positions(ge)
            /\ publisher_ids = Positions(pu)

\* two rows whose platform texts differ only by surrounding blanks were
\* committed with one PLATFORM row, one GENRE row and one PUBLISHER row less
\* than rows
C10_Witness ==
    /\ pc = "done"
    /\ Len(rows) = 2
    /\ rows[1].Platform # rows[2].Platform
    /\ strip(rows[1].Platform) = strip(rows[2].Platform)
    /\ Len(PLATFORM) = 1
    /\ platform_ids = (strip(rows[1].Platform) :> 1)

\* the rows of a store file, table by table
StoreRows(store) ==
    [PLATFORM |-> {store.PLATFORM[i] : i \in 1..Len(store.PLATFORM)},
     REGION |-> {store.REGION[i] : i \in 1..Len(store.REGION)},
     GENRE |-> {store.GENRE[i] : i \in 1..Len(store.GENRE)},
     PUBLISHER |-> {store.PUBLISHER[i] : i \in 1..Len(store.PUBLISHER)},
     GAME |-> {store.GAME[i] : i \in 1..Len(store.GAME)},
     SALE |-> store.SALE,
     SaleMonthly |-> store.SaleMonthly]

\* C11: a failure at a seed row ends the run with the error raised, no later
\* row is processed and the store file keeps only the empty tables of
\* init_db; rows are committed once, after the last seed row was processed;
\* a row whose Year is not an integer is never passed over.
C11_AbortCommitsNothing ==
    /\ pc = "failed" =>
          /\ last.raised # ""
          /\ db_file = EmptyStore
          /\ ~ENABLED Next
    /\ (pc \in {"opened", "rows", "done"} /\ db_file # EmptyStore) =>
          /\ pc = "done"
          /\ row_i = Len(rows) + 1
          /\ last.raised = ""
    /\ pc \in {"rows", "done"} =>
          \A i \in 1..(row_i - 1) : IsIntText(rows[i].Year)

\* the second seed row has a Year that is no integer; the first row was
\* written with its fact rows, and the store file holds none of them
C11_Witness ==
    /\ pc = "failed"
    /\ last.raised = "ValueError"
    /\ last.row_i = 2
    /\ PLATFORM # <<>> /\ GAME # <<>> /\ SALE # {} /\ SaleMonthly # {}
    /\ db_file = EmptyStore

\* C12: from init_db on, in every state of the run and after a run that
\* succeeded or aborted, the store file holds no row of the file that existed
\* when the script started.
C12_StoreRebuilt ==
    pc # "start" =>
        /\ db_file.exists
        /\ \A t \in DOMAIN StoreRows(OldStore) :
              t # "REGION" => StoreRows(db_file)[t] \cap StoreRows(OldStore)[t] = {}
        /\ pc \in {"opened", "failed"} => db_file = EmptyStore

\* the script started over a store file of an earlier run and aborted on a
\* missing seed file
C12_Witness ==
    /\ pc = "failed"
    /\ last.raised = "FileNotFoundError"
    /\ last.unlinked
    /\ db_file = EmptyStore
    /\ ~csv_file.exists

\* a label reads "YYYY-MM": four digits, a dash, two digits
IsYearMonth(ym) ==
    /\ Len(ym) = 7
    /\ ym[5] = "-"
    /\ \A i \in {1, 2, 3, 4, 6, 7} : IsDigit(ym[i])

YearOf(ym) == ParseInt(SubSeq(ym, 1, 4))
MonthOf(ym) == ParseInt(SubSeq(ym, 6, 7))

\* the label b names the calendar month after the one the label a names
CalendarSuccessor(a, b) ==
    IF MonthOf(a) = 12
    THEN YearOf(b) = YearOf(a) + 1 /\ MonthOf(b) = 1
    ELSE YearOf(b) = YearOf(a) /\ MonthOf(b) = MonthOf(a) + 1

\* C17: the month window of build_from_csv is 36 distinct labels "YYYY-MM",
\* the first "2023-01", the last "2025-12", each the calendar successor of
\* the one before it; every SaleMonthly.year_month is one of these labels.
C17_MonthWindow ==
    /\ Len(months) = 36
    /\ \A i \in 1..Len(months) : IsYearMonth(months[i]) /\ MonthOf(months[i]) \in 1..12
    /\ months[1] = <<"2", "0", "2", "3", "-", "0", "1">>
    /\ months[Len(months)] = <<"2", "0", "2", "5", "-", "1", "2">>
    /\ \A i \in 1..(Len(months) - 1) : CalendarSuccessor(months[i], months[i + 1])
    /\ \A i, j \in 1..Len(months) : months[i] = months[j] => i = j
    /\ \A m \in SaleMonthly : \E i \in 1..Len(months) : m.year_month = months[i]

\* a committed build stored monthly rows of the first month, of the first
\* month of the second year and of the last month of the window
C17_Witness ==
    /\ pc = "done"
    /\ \E m \in SaleMonthly : m.year_month = <<"2", "0", "2", "3", "-", "0", "1">>
    /\ \E m \in SaleMonthly : m.year_month = <<"2", "0", "2", "4", "-", "0", "1">>
    /\ \E m \in SaleMonthly : m.year_month = <<"2", "0", "2", "5", "-", "1", "2">>

\* the SaleMonthly rows of the iteration `last` describes
MonthlyOfLast ==
    {m \in SaleMonthly : m.game_id = last.game_id /\ m.platform_id = last.platform_id}

\* the 0-based position of a label in the month window
MonthIndex(ym) == (CHOOSE i \in 1..Len(months) : months[i] = ym) - 1

\* price * (1.1 - 0.5 * idx / 35) as <<whole yen, remainder in 350ths>>
DiscountedPrice(price, idx) ==
    <<(price * (385 - 5 * idx)) \div 350, (price * (385 - 5 * idx)) % 350>>

\* C14 (as the code has it): for every SaleMonthly row an iteration stores,
\* revenue_jpy is the monthly units times the discounted month price, the
\* latter truncated to whole yen first: month_units * trunc(price_jpy * factor).
C14_RevenueOfTruncatedPrice ==
    [][ \A m \in SaleMonthly' \ SaleMonthly :
            m.revenue_jpy =
                Product(m.sales_units,
                        DiscountedPrice(last'.price_jpy, MonthIndex(m.year_month))[1])
      ]_vars

\* the first iteration stored a month of more than one copy whose discounted
\* price is not a whole number of yen
C14_Witness ==
    /\ LastDistributed
    /\ last.row_i = 1
    /\ \E m \in MonthlyOfLast :
          /\ m.sales_units > 1
          /\ DiscountedPrice(last.price_jpy, MonthIndex(m.year_month))[2] > 0
          /\ m.revenue_jpy # <<0, 0>>

\* C14 (as stated): for every SaleMonthly row an iteration stores, revenue_jpy
\* is trunc(month_units * price_jpy * factor).  With price * factor = q + r/350,
\* that is month_units * q + trunc(month_units * r / 350).
C14_RevenueOfTruncatedProduct ==
    [][ \A m \in SaleMonthly' \ SaleMonthly :
            LET dp    == DiscountedPrice(last'.price_jpy, MonthIndex(m.year_month))
                whole == Product(m.sales_units, dp[1])
                rest  == whole[2] + (m.sales_units * dp[2]) \div 350
            IN  m.revenue_jpy = <<whole[1] + rest \div WScale, rest % WScale>>
      ]_vars

\* C22: the volume adjustment comes after the base volume is resolved and
\* before the regional distribution: a title of the publisher "Nintendo" has
\* its volume multiplied by a factor in [1.55, 1.70] when its genre is
\* "Platform" and by a factor in [0.88, 0.95] for any other genre; a title
\* of any other publisher keeps its base volume; the regional volumes are
\* shares of the adjusted volume.
C22_VolumeAdjustment ==
    LastDistributed =>
        LET pub  == strip(LastRow.Publisher)
            gen  == strip(LastRow.Genre)
            base == last.base_japan_m
            adj  == last.adjusted
        IN  /\ base > 0
            /\ base = base_japan_m(LastRow)
            /\ (pub = pub_Nintendo /\ gen = g_Platform) =>
                  155 * base <= adj /\ adj <= 170 * base
            /\ (pub = pub_Nintendo /\ gen # g_Platform) =>
                  88 * base <= adj /\ adj <= 95 * base
            /\ pub # pub_Nintendo => adj = 100 * base
            /\ last.row_i = 1 =>
                  \A s \in SALE :
                      LET w     == last.region_weights[REGION[s.region_id].region_name]
                          share == MulW(adj, w)[1]
                      IN  100 * s.sales_million - share <= 50
                          /\ share - 100 * s.sales_million <= 50

\* a Sports title of Nintendo was distributed with its volume lowered, all
\* 8 regions stored
C22_Witness ==
    /\ LastDistributed
    /\ last.row_i = 1
    /\ strip(LastRow.Publisher) = pub_Nintendo
    /\ strip(LastRow.Genre) = g_Sports
    /\ last.adjusted < 100 * last.base_japan_m
    /\ Cardinality(SALE) = Len(regions)

\* two seed rows of the same (name, release_year, publisher) and platform
SameTitle(a, b) ==
    /\ IsIntText(a.Year) /\ IsIntText(b.Year)
    /\ TripleOf(a) = TripleOf(b)
    /\ strip(a.Platform) = strip(b.Platform)

\* seed row j repeats an earlier row, both with a positive base volume
DuplicateAt(j) ==
    \E i \in 1..(j - 1) : /\ SameTitle(rows[i], rows[j])
                          /\ base_japan_m(rows[i]) > 0
                          /\ base_japan_m(rows[j]) > 0

\* C28 (as stated): the iteration over a seed row that repeats an earlier row,
\* both with positive volume, reuses the game_id and platform_id, collides with
\* the key of SALE and aborts the batch with nothing committed.
C28_DuplicateAborts ==
    [][ (pc = "rows" /\ row_i <= Len(rows) /\ DuplicateAt(row_i)) =>
            /\ pc' = "failed"
            /\ last'.raised = "IntegrityError: SALE primary key"
            /\ db_file' = EmptyStore ]_vars

\* C28 (as the code has it): the iteration over such a row reuses the game_id
\* and platform_id of the earlier row; it aborts the batch, nothing committed,
\* exactly when it has a region of more than 0 copies for which SALE already
\* holds a row of that game and platform, the collision being at the first
\* such region; when it has none (volumes so small that the regions round to
\* 0 copies) the row is processed without an error.
C28_DuplicateCollides ==
    [][ (pc = "rows" /\ row_i <= Len(rows) /\ DuplicateAt(row_i)) =>
            LET g        == game_ids[TripleOf(rows[row_i])]
                p        == platform_ids[strip(rows[row_i].Platform)]
                held     == {x.region_id : x \in {y \in SALE : y.game_id = g
                                                              /\ y.platform_id = p}}
                stores   == {i \in 1..Len(REGION) :
                                region_sales_units(region_sales_m(
                                    last'.adjusted,
                                    last'.region_weights[REGION[i].region_name])) > 0}
                common   == held \cap stores
                added    == {x.region_id : x \in SALE' \ SALE}
            IN  /\ last'.game_id = g /\ last'.platform_id = p
                /\ GAME' = GAME /\ PLATFORM' = PLATFORM
                /\ IF common # {}
                   THEN /\ pc' = "failed"
                        /\ last'.raised = "IntegrityError: SALE primary key"
                        /\ db_file' = EmptyStore
                        /\ added = {i \in stores : \A j \in common : i < j}
                   ELSE /\ pc' = "rows"
                        /\ last'.raised = ""
                        /\ row_i' = row_i + 1
                        /\ added = stores ]_vars

\* the second row of a catalog repeated the first and its insert collided
\* with a SALE row of the first; nothing is committed
C28_Witness ==
    /\ pc = "failed"
    /\ last.row_i = 2
    /\ last.raised = "IntegrityError: SALE primary key"
    /\ SameTitle(rows[1], rows[2])
    /\ base_japan_m(rows[1]) > 0
    /\ SALE # {}
    /\ db_file = EmptyStore

\* C30: a seed row skipped for a base volume <= 0 has its Platform, Genre,
\* Publisher and Title rows in the store all the same (the dimensions are
\* resolved before the volume is tested); the fact tables get nothing from
\* it, so a Title can be stored without any fact row.
C30_SkippedRowKeepsDimensions ==
    (LastProcessed /\ last.skipped) =>
        /\ base_japan_m(LastRow) <= 0
        /\ \E i \in 1..Len(PLATFORM) :
              /\ PLATFORM[i].platform_name = strip(LastRow.Platform)
              /\ PLATFORM[i].platform_id = last.platform_id
        /\ \E i \in 1..Len(GENRE) : GENRE[i].genre_name = strip(LastRow.Genre)
        /\ \E i \in 1..Len(PUBLISHER), j \in 1..Len(GAME) :
              /\ PUBLISHER[i].publisher_name = strip(LastRow.Publisher)
              /\ GAME[j].publisher_id = PUBLISHER[i].publisher_id
              /\ GAME[j].game_name = strip(LastRow.Name)
              /\ GAME[j].release_year = IntValue(LastRow.Year)
              /\ GAME[j].game_id = last.game_id
        /\ last.row_i = 1 =>
              /\ Len(PLATFORM) = 1 /\ Len(GENRE) = 1
              /\ Len(PUBLISHER) = 1 /\ Len(GAME) = 1
              /\ SALE = {} /\ SaleMonthly = {}

\* a committed store holds the Title of a skipped row and no fact row of it
C30_Witness ==
    /\ pc = "done"
    /\ last.row_i >= 1
    /\ last.skipped
    /\ \E j \in 1..Len(db_file.GAME) : db_file.GAME[j].game_id = last.game_id
    /\ \A x \in db_file.SALE : x.game_id # last.game_id
    /\ \A x \in db_file.SaleMonthly : x.game_id # last.game_id
    /\ db_file.SALE # {}

-----------------------------------------------------------------------------
(***************************************************************************)
(* The dashboard (app.py, components/publisher_overview.py).  `dash' holds *)
(* the properties of the components the callbacks read and write; a        *)
(* callback is one action: Dash passes the Input and State properties,     *)
(* runs the function and stores what it returns in the Output properties.  *)
(***************************************************************************)

\* the set of the entries of a list
Range(seq) == {seq[i] : i \in 1..Len(seq)}

\* the code point of a character of a month label
Ord(c) == IF c = "-" THEN 45 ELSE 48 + DigitValue(c)

\* Python's a < b on two strings: the first differing code point decides,
\* and a proper prefix is smaller
RECURSIVE StrLess(_, _)
StrLess(a, b) ==
    IF b = <<>> THEN FALSE
    ELSE IF a = <<>> THEN TRUE
    ELSE IF a[1] = b[1] THEN StrLess(Tail(a), Tail(b))
    ELSE Ord(a[1]) < Ord(b[1])

\* the labels "2022-01" .. "2024-12" of the comprehension
all_options ==
    LET pairs == [i \in 1..36 |-> <<2022 + ((i - 1) \div 12), ((i - 1) % 12) + 1>>]
        Keep(p) == ~(p[1] = 2024 /\ p[2] > 12)
        kept == SelectSeq(pairs, Keep)
    IN  [i \in 1..Len(kept) |-> FormatYM(kept[i][1], kept[i][2])]

\* the values of the options of both month dropdowns
MONTH_OPTIONS == all_options

\* a variant that returns the current end as it is
update_end_options_keep_end(start, end) ==
    LET AtOrAfter(o) == ~StrLess(o, start)
    IN  [options |-> SelectSeq(all_options, AtOrAfter), value |-> end]

\* update_end_options(start, end): the end options and the end value
update_end_options(start, end) ==
    LET AtOrAfter(o) == ~StrLess(o, start)
        end_options == SelectSeq(all_options, AtOrAfter)
    IN  [options |-> end_options,
         value   |-> IF StrLess(end, start) THEN start ELSE end]

\* the component properties of layout() before any callback has run
InitialLayout ==
    [ start_ym    |-> FormatYM(2022, 1),
      end_ym      |-> FormatYM(2024, 12),
      end_options |-> MONTH_OPTIONS,
      metric      |-> "revenue",
      mode        |-> None,
      pill        |-> "publisher-pill top-active",
      click_data  |-> None,
      treemap     |-> None,
      pie         |-> None,
      loaded      |-> FALSE ]

InitEndOptions ==
    /\ BatchIdle
    /\ call = NoCall
    /\ dash = InitialLayout

\* the start dropdown gets a value (the one of the layout when the page
\* loads, the user's choice later) and the callback runs with the end
\* dropdown's value as State
UpdateEndOptions ==
    /\ \E start \in Range(MONTH_OPTIONS) :
          \E out \in {update_end_options(start, dash.end_ym)} :
             /\ call' = [fn |-> "update_end_options", start |-> start,
                         end |-> dash.end_ym, options |-> out.options,
                         value |-> out.value]
             /\ dash' = [dash EXCEPT !.start_ym = start,
                                     !.end_options = out.options,
                                     !.end_ym = out.value]
    /\ UNCHANGED batchVars

\* the user picks one of the offered end months; the end value is only a
\* State of update_end_options, so this event runs no callback of app.py
SelectEnd ==
    /\ \E end \in Range(dash.end_options) :
          dash' = [dash EXCEPT !.end_ym = end]
    /\ call' = NoCall
    /\ UNCHANGED batchVars

NextEndOptions == UpdateEndOptions \/ SelectEnd

SpecEndOptions == InitEndOptions /\ [][NextEndOptions]_vars

\* the month number of a label, counted from year 0
MonthNumber(ym) == YearOf(ym) * 12 + MonthOf(ym)

\* C24: update_end_options returns as end options exactly the month labels
\* that are not before start, in calendar order, and an end value that is
\* not before start: the current end when it is not before start, and
\* start itself when the current end is before start.
C24_EndNotBeforeStart ==
    call.fn = "update_end_options" =>
        /\ \A o \in Range(MONTH_OPTIONS) :
              (o \in Range(call.options)) <=> (MonthNumber(o) >= MonthNumber(call.start))
        /\ \A i \in 1..(Len(call.options) - 1) :
              MonthNumber(call.options[i + 1]) = MonthNumber(call.options[i]) + 1
        /\ Range(call.options) \subseteq Range(MONTH_OPTIONS)
        /\ MonthNumber(call.value) >= MonthNumber(call.start)
        /\ call.value = IF MonthNumber(call.end) >= MonthNumber(call.start)
                        THEN call.end ELSE call.start

\* a call whose current end is before the new start
C24_Witness ==
    /\ call.fn = "update_end_options"
    /\ MonthNumber(call.end) < MonthNumber(call.start)
    /\ call.value = call.start
    /\ Len(call.options) < Len(MONTH_OPTIONS)

-----------------------------------------------------------------------------
(***************************************************************************)
(* The Publisher Overview callback.  A figure is modelled by what the code *)
(* puts into it: a treemap by its ranking mode and metric, a pie by being  *)
(* a placeholder with a message or the games pie of a publisher.  The      *)
(* Plotly figure builders are taken to return a figure.                    *)
(***************************************************************************)

\* ctx.triggered_id when no input triggered the callback (None in Python)
NoTrigger == ""

\* the ids of the Inputs of the callback
Triggers ==
    {"publisher-worst-btn", "publisher-top-btn", "publisher-overview-graph",
     "metric-toggle", "global-start-ym", "global-end-ym"}

Publishers == {"Nintendo", "Sega"}

\* the points a click on the treemap reports: the number of keys of the
\* point, its "entry" key (absent, "" at the root, or the publisher the
\* treemap is zoomed on) and customdata[0]
ClickPoints ==
    { [keys |-> k, entry |-> e, customdata |-> <<c>>] :
        k \in {8, 12}, e \in {None, Str("")} \cup {Str(q) : q \in Publishers},
        c \in Publishers }

\* the clickData property: None, or a dict with one point
ClickData == {None} \cup { Str([points |-> <<q>>]) : q \in ClickPoints }

_empty_pie_placeholder(message) == [kind |-> "placeholder", message |-> message]

\* the treemap shows the head of the table sorted by the metric, ascending
\* exactly for mode "Worst", under the title "<mode> 5 Publishers by ..."
_publisher_treemap(mode_label, metric) ==
    [ title_mode |-> mode_label,
      ascending  |-> (mode_label = "Worst"),
      metric_col |-> IF metric = "revenue" THEN "revenue" ELSE "units" ]

\* _publisher_games_pie: with no game rows the code passes the keyword
\* metric to _empty_pie_placeholder, which takes only message
_publisher_games_pie(publisher_name, metric, games_empty) ==
    IF games_empty
    THEN [raised |-> "TypeError"]
    ELSE [raised |-> "", kind |-> "games", publisher |-> publisher_name,
          metric |-> metric]

\* a variant that looks at the buttons only
mode_label_from_buttons(trigger_id, current_mode) ==
    IF trigger_id = "publisher-worst-btn" THEN "Worst" ELSE "Top"

\* mode_label after lines 411-415
mode_label(trigger_id, current_mode) ==
    IF trigger_id = "publisher-top-btn" THEN "Top"
    ELSE IF trigger_id = "publisher-worst-btn" THEN "Worst"
    ELSE IF current_mode = None THEN "Top"
    ELSE current_mode[1]

pill_class(mode) ==
    IF mode = "Top" THEN "publisher-pill top-active"
    ELSE "publisher-pill worst-active"

\* selected_publisher of lines 440-445: None, or Str(name)
selected_publisher(click_data) ==
    IF click_data # None /\ click_data[1].points # <<>>
          /\ click_data[1].points[1].entry = Str("")
    THEN Str(click_data[1].points[1].customdata[1])
    ELSE None

\* update_publisher_overview: what it returns, or the exception it raises.
\* df_pub_empty and games_empty say what the two queries find.
update_publisher_overview(trigger_id, click_data, metric, current_mode, df_pub_empty, games_empty) ==
    LET mode == mode_label(trigger_id, current_mode)
        Raise(e) == [raised |-> e, treemap |-> None, pie |-> None,
                     pill |-> None, mode |-> None]
        Return(pie) ==
            [raised |-> "", treemap |-> _publisher_treemap(mode, metric),
             pie |-> pie, pill |-> pill_class(mode), mode |-> mode]
        GamesPie(name) ==
            LET fig == _publisher_games_pie(name, metric, games_empty)
            IN  IF fig.raised # "" THEN Raise(fig.raised)
                ELSE Return([kind |-> fig.kind, publisher |-> fig.publisher,
                             metric |-> fig.metric])
        selected == selected_publisher(click_data)
    IN  IF df_pub_empty
        THEN Return(_empty_pie_placeholder("No publisher data"))
        ELSE IF trigger_id \in {"publisher-top-btn", "publisher-worst-btn"}
        THEN Return(_empty_pie_placeholder("Select a publisher from the treemap"))
        ELSE IF trigger_id \in {"metric-toggle", "global-start-ym", "global-end-ym"}
        THEN IF selected # None
             THEN GamesPie(selected[1])
             ELSE Return(_empty_pie_placeholder("Select a publisher from the treemap"))
        ELSE IF click_data = None
        THEN Raise("TypeError")       \* click_data["points"] on None, line 461
        ELSE IF click_data[1].points[1].keys = 8
        THEN Return(_empty_pie_placeholder("To reselect the same publisher"))
        ELSE IF trigger_id = "publisher-overview-graph"
        THEN IF click_data[1].points[1].entry = Str("")
             THEN GamesPie(click_data[1].points[1].customdata[1])
             ELSE Return(_empty_pie_placeholder("Select a publisher from treemap"))
        ELSE Return(_empty_pie_placeholder("Select a publisher from the treemap"))

InitPublisher ==
    /\ BatchIdle
    /\ call = NoCall
    /\ dash = InitialLayout

\* the Input properties after the event that triggers the callback: a click
\* on the treemap sets clickData, the metric toggle sets the other metric;
\* the buttons and the month dropdowns change properties the callback does
\* not branch on
InputsAfter(trigger_id) ==
    IF trigger_id = "publisher-overview-graph"
    THEN { [click_data |-> c, metric |-> dash.metric] : c \in ClickData \ {None} }
    ELSE IF trigger_id = "metric-toggle"
    THEN { [click_data |-> dash.click_data, metric |-> m] :
              m \in {"revenue", "units"} \ {dash.metric} }
    ELSE { [click_data |-> dash.click_data, metric |-> dash.metric] }

\* the triggers that can run the callback: on page load Dash runs it with
\* no triggering input, or with the end month that update_end_options has
\* just written; later one of the Inputs triggers it
TriggersNow ==
    IF dash.loaded THEN Triggers ELSE {NoTrigger, "global-end-ym"}

\* one run of the callback; when it raises, Dash updates no Output
UpdatePublisherOverview ==
    /\ \E trigger_id \in TriggersNow, df_pub_empty \in BOOLEAN, games_empty \in BOOLEAN :
        \E inp \in InputsAfter(trigger_id) :
          \E out \in {update_publisher_overview(trigger_id, inp.click_data, inp.metric,
                                                dash.mode, df_pub_empty, games_empty)} :
             /\ call' = [fn |-> "update_publisher_overview",
                         trigger_id |-> trigger_id, click_data |-> inp.click_data,
                         metric |-> inp.metric, current_mode |-> dash.mode,
                         df_pub_empty |-> df_pub_empty, games_empty |-> games_empty,
                         raised |-> out.raised, treemap |-> out.treemap,
                         pie |-> out.pie, pill |-> out.pill, mode |-> out.mode]
             /\ dash' = IF out.raised # ""
                        THEN [dash EXCEPT !.click_data = inp.click_data,
                                          !.metric = inp.metric,
                                          !.loaded = TRUE]
                        ELSE [dash EXCEPT !.click_data = inp.click_data,
                                          !.metric = inp.metric,
                                          !.loaded = TRUE,
                                          !.treemap = out.treemap,
                                          !.pie = out.pie,
                                          !.pill = out.pill,
                                          !.mode = Str(out.mode)]
    /\ UNCHANGED batchVars

NextPublisher == UpdatePublisherOverview

SpecPublisher == InitPublisher /\ [][NextPublisher]_vars

\* the mode the store stands for: an empty store reads as "Top" (line 411)
StoredMode(data) == IF data = None THEN "Top" ELSE data[1]

\* C25: the store starts standing for "Top" with the top-active pill, and
\* every callback that returns stores "Top" when the Top 5 button triggered
\* it, "Worst" when the Worst 5 button did, and the mode it found for any
\* other trigger; it returns the class "publisher-pill top-active" exactly
\* when that mode is "Top", and for a button trigger it returns a
\* placeholder pie.
C25_ModeFollowsButtons ==
    /\ (StoredMode(dash.mode) = "Top" /\ dash.pill = "publisher-pill top-active")
    /\ [][ (call'.fn = "update_publisher_overview" /\ call'.raised = "") =>
             /\ dash'.mode = Str(IF call'.trigger_id = "publisher-top-btn" THEN "Top"
                                 ELSE IF call'.trigger_id = "publisher-worst-btn" THEN "Worst"
                                 ELSE StoredMode(dash.mode))
             /\ call'.mode = StoredMode(dash'.mode)
             /\ call'.pill \in {"publisher-pill top-active", "publisher-pill worst-active"}
             /\ (call'.pill = "publisher-pill top-active") <=> (call'.mode = "Top")
             /\ dash'.pill = call'.pill
             /\ call'.trigger_id \in {"publisher-top-btn", "publisher-worst-btn"} =>
                   /\ call'.pie.kind = "placeholder"
                   /\ ~call'.df_pub_empty =>
                         call'.pie.message = "Select a publisher from the treemap" ]_vars

\* mode "Worst" has survived a callback that no button triggered
C25_Witness ==
    /\ call.fn = "update_publisher_overview"
    /\ call.raised = ""
    /\ call.trigger_id \in {"metric-toggle", "global-start-ym", "global-end-ym",
                            "publisher-overview-graph"}
    /\ call.current_mode = Str("Worst")
    /\ dash.mode = Str("Worst")
    /\ dash.pill = "publisher-pill worst-active"

-----------------------------------------------------------------------------
(***************************************************************************)
(* _top3_with_others.  A table is a list of rows [game_name, value]; the   *)
(* value column holds the integer sums of the query.  max_others_ratio is  *)
(* given in percent, so that remaining / total <= ratio is the integer     *)
(* test remaining * 100 <= ratio * total.                                  *)
(***************************************************************************)

\* the largest table
MaxGames == 6

\* the values of a row
GameValues == {0, 1, 3}

\* the arguments max_others_ratio (percent) and max_kept; the one call in
\* _publisher_games_pie uses the defaults 20 and 5
OthersRatios == {20, 50}
MaxKepts == {2, 5}

GameNames == <<"g1", "g2", "g3", "g4", "g5", "g6", "g7", "g8", "g9">>

\* the tables of n rows
TablesOf(n) ==
    { [i \in 1..n |-> [game_name |-> GameNames[i], value |-> v[i]]] :
        v \in [1..n -> GameValues] }

GameTables == UNION { TablesOf(n) : n \in 0..MaxGames }

ValueSum(df) == SumSeq([i \in 1..Len(df) |-> df[i].value])

\* sort_values(value_col, ascending = False): rows of equal value keep
\* their order
RECURSIVE sort_values_desc(_)
sort_values_desc(df) ==
    IF df = <<>> THEN <<>>
    ELSE LET rest == sort_values_desc(SubSeq(df, 1, Len(df) - 1))
             row == df[Len(df)]
             Before(r) == r.value >= row.value
             k == Len(SelectSeq(rest, Before))
         IN  SubSeq(rest, 1, k) \o <<row>> \o SubSeq(rest, k + 1, Len(rest))

\* a variant of the loop whose limit test lets one more row in
RECURSIVE kept_rows_late_limit(_, _, _, _, _, _)
kept_rows_late_limit(df_sorted, i, remaining, total, max_others_ratio, max_kept) ==
    IF i > Len(df_sorted) \/ i - 1 > max_kept THEN SubSeq(df_sorted, 1, i - 1)
    ELSE LET left == remaining - df_sorted[i].value
         IN  IF left * 100 <= max_others_ratio * total
             THEN SubSeq(df_sorted, 1, i)
             ELSE kept_rows_late_limit(df_sorted, i + 1, left, total,
                                       max_others_ratio, max_kept)

\* the loop of lines 155-163 from row i on, with i - 1 rows kept so far
RECURSIVE kept_rows(_, _, _, _, _, _)
kept_rows(df_sorted, i, remaining, total, max_others_ratio, max_kept) ==
    IF i > Len(df_sorted) \/ i - 1 >= max_kept THEN SubSeq(df_sorted, 1, i - 1)
    ELSE LET left == remaining - df_sorted[i].value
         IN  IF left * 100 <= max_others_ratio * total
             THEN SubSeq(df_sorted, 1, i)
             ELSE kept_rows(df_sorted, i + 1, left, total,
                            max_others_ratio, max_kept)

_top3_with_others(df, max_others_ratio, max_kept) ==
    LET df_sorted == sort_values_desc(df)
        total == ValueSum(df_sorted)
        kept_df == kept_rows(df_sorted, 1, total, total, max_others_ratio, max_kept)
        others_value == total - ValueSum(kept_df)
    IN  IF total <= 0 THEN df_sorted
        ELSE IF others_value > 0
        THEN kept_df \o << [game_name |-> "Others", value |-> others_value] >>
        ELSE kept_df

\* the arguments of one call
InitTop3 ==
    /\ BatchIdle
    /\ dash = NoDash
    /\ \E df \in GameTables, max_others_ratio \in OthersRatios, max_kept \in MaxKepts :
          call = [fn |-> "args", df |-> df,
                  max_others_ratio |-> max_others_ratio, max_kept |-> max_kept]

CallTop3 ==
    /\ call.fn = "args"
    /\ call' = [fn |-> "_top3_with_others", df |-> call.df,
                max_others_ratio |-> call.max_others_ratio,
                max_kept |-> call.max_kept,
                out |-> _top3_with_others(call.df, call.max_others_ratio,
                                          call.max_kept)]
    /\ UNCHANGED <<batchVars, dash>>

NextTop3 == CallTop3

SpecTop3 == InitTop3 /\ [][NextTop3]_vars

\* the rows of the result that are games: all but a closing "Others" row
KeptOf(out) ==
    IF out # <<>> /\ out[Len(out)].game_name = "Others"
    THEN SubSeq(out, 1, Len(out) - 1) ELSE out

\* the value of the closing "Others" row, 0 when there is none
OthersOf(out) ==
    IF out # <<>> /\ out[Len(out)].game_name = "Others"
    THEN out[Len(out)].value ELSE 0

\* C27: for a table of non-negative values with positive total,
\* _top3_with_others keeps at most max_kept games, which are rows of the
\* table, in descending order, none smaller than a game left out; the rest
\* of the total is one closing "Others" row (present exactly when the rest
\* is positive), so the output values sum to the total; and the Others
\* share is at most max_others_ratio unless max_kept games were kept.
C27_TopWithOthers ==
    (call.fn = "_top3_with_others" /\ ValueSum(call.df) > 0) =>
        LET kept == KeptOf(call.out)
            total == ValueSum(call.df)
            names == {kept[i].game_name : i \in 1..Len(kept)}
        IN  /\ Len(kept) <= call.max_kept
            /\ \A i \in 1..Len(kept) : \E j \in 1..Len(call.df) : call.df[j] = kept[i]
            /\ Cardinality(names) = Len(kept)
            /\ "Others" \notin names
            /\ \A i \in 1..(Len(kept) - 1) : kept[i].value >= kept[i + 1].value
            /\ \A j \in 1..Len(call.df) :
                  call.df[j].game_name \notin names =>
                      \A i \in 1..Len(kept) : kept[i].value >= call.df[j].value
            /\ OthersOf(call.out) = total - ValueSum(kept)
            /\ (Len(call.out) > Len(kept)) <=> (total - ValueSum(kept) > 0)
            /\ ValueSum(call.out) = total
            /\ \/ OthersOf(call.out) * 100 <= call.max_others_ratio * total
               \/ Len(kept) = call.max_kept

\* the limit max_kept was reached with more than the ratio left for Others
C27_Witness ==
    /\ call.fn = "_top3_with_others"
    /\ ValueSum(call.df) > 0
    /\ Len(KeptOf(call.out)) = call.max_kept
    /\ Len(call.df) > call.max_kept + 1
    /\ OthersOf(call.out) * 100 > call.max_others_ratio * ValueSum(call.df)

=============================================================================
